---- MODULE Spec2Model ----
(***************************************************************************)
(* Model of the networking runtime of source/simpleGENetworking.py:        *)
(* the Server (per-connection TCP handler threads, the UDP listener thread *)
(* and its broadcast), and the Client (UDP listener with heartbeat) with   *)
(* the NetworkScene frame hook.                                            *)
(*                                                                         *)
(* Python threads are modelled as processes with a program counter; one    *)
(* action is one step of a thread between two points where another thread  *)
(* can observe or change the shared state (lock acquire, statements inside *)
(* a critical section, lock release).                                      *)
(***************************************************************************)
EXTENDS Integers, Sequences, FiniteSets, TLC

\* ------------------------------------------------------------------ bounds
\* The inputs of one run: TCP connections accepted plus datagrams received
\* on the server's UDP port.
MaxInputs == 3

\* Calls of start_advertising on the one LANDiscoveryService.
MaxStarts == 3

Conns == 1..MaxInputs
Ids == 1..MaxInputs    \* values uuid4 can return (one per connection suffices)

\* Payloads and sender endpoints are opaque to the server: it stores and
\* forwards them and never looks inside. Two of each tell them apart.
Payloads == {"p1", "p2"}
Addrs == {"a1", "a2"}

\* A client_id carried by a datagram that no handshake of this server minted.
ForeignId == 0

VARIABLES
    \* --- Server (shared, guarded by self.lock)
    game_state,     \* dict client_id -> payload
    client_map,     \* dict client_id -> addr, in insertion order
    clients_tcp,    \* list of accepted client sockets (one per connection)
    lock,           \* holder of self.lock: {} when free
    \* --- Server._handle_client_tcp, one thread per connection
    hpc,            \* position of the handler thread of each connection
    handshake,      \* what the first read on the connection yields
    client_id,      \* the handler's local client_id: {} while unbound
    sock_closed,    \* client_sock.close() was called by the handler
    tcp_out,        \* messages the handler handed to the connection
    minted,         \* values uuid4 has returned so far
    \* --- Server._run_udp_listener
    upc,            \* position of the UDP listener thread
    upkt,           \* the datagram being processed (or last processed)
    ubcast,         \* the broadcast made for upkt
    udp_recvd,      \* number of datagrams received so far
    \* --- Server.start, Server._run_tcp_server
    tpc             \* position of the acceptor thread

\* --- Client, NetworkScene (one client and its scene)
VARIABLES
    c_running,        \* Client.running
    c_connected,      \* Client.connected
    c_id,             \* Client.id: {} while None
    c_latest_state,   \* Client.latest_state: the keys of the last snapshot stored
    last_packet_time, \* Client.last_packet_time
    now,              \* time.time()
    recv_start,       \* when the pending recvfrom was called
    lpc,              \* position of the thread running Client._listen_udp
    silent,           \* from now on no datagram reaches the client
    scene_running,    \* the engine still calls NetworkScene.process
    disc_called,      \* on_server_disconnect was invoked
    frame,            \* the calls the current (or last) NetworkScene.process made
    fpc,              \* position of the frame thread inside NetworkScene.process
    ipc,              \* position of the thread running Client.__init__
    c_conn,           \* the server's connection the client's TCP socket is: 0 if none
    c_hello,          \* the handshake frame the client sent
    c_port,           \* Client.server_udp_port: {} while None
    c_out,            \* the last call of send_update: its argument, the datagrams it sent
    c_closed,         \* the sockets of the client that were closed
    stops             \* number of calls of Client.stop

cvars == <<c_running, c_connected, c_id, c_latest_state, last_packet_time, now,
           recv_start, lpc, silent, scene_running, disc_called, frame, fpc,
           ipc, c_conn, c_hello, c_port, c_out, c_closed, stops>>

svars == <<game_state, client_map, clients_tcp, lock, hpc, handshake, client_id,
           sock_closed, tcp_out, minted, upc, upkt, ubcast, udp_recvd, tpc>>

\* --- LANDiscoveryService.find_games (one scan)
VARIABLES
    discovered_hosts, \* the list find_games builds and returns
    scanned,          \* the datagrams the scan has received, in order
    dpc               \* position of the scan

dvars == <<discovered_hosts, scanned, dpc>>

\* --- LANDiscoveryService, the advertising side (one instance)
VARIABLES
    advertising,      \* LANDiscoveryService.advertising
    a_sock,           \* LANDiscoveryService.sock: 0 while None
    a_open,           \* the broadcast sockets created and not closed
    apc,              \* position of each thread running _broadcast_loop
    a_sent            \* the threads whose sendto has returned at least once

avars == <<advertising, a_sock, a_open, apc, a_sent>>

\* --- NetUtils: one TCP stream, its writer and its reader
VARIABLES
    w_bytes,          \* the bytes written to the stream so far, in order
    w_sent,           \* the objects whose frame sendall wrote completely
    w_closed,         \* the writer's end is closed (or the stream broke)
    r_pos,            \* number of bytes of the stream recv has handed out
    rpc,              \* position of the reader inside receive_object_over_tcp
    r_buf,            \* data of the running receive_all_bytes
    r_len,            \* msglen
    r_got             \* what the calls of receive_object_over_tcp returned

fvars == <<w_bytes, w_sent, w_closed, r_pos, rpc, r_buf, r_len, r_got>>

\* ------------------------------------------------------------ dict helpers
EmptyDict == [k \in {} |-> 0]

DictSet(d, k, v) == [x \in (DOMAIN d) \cup {k} |-> IF x = k THEN v ELSE d[x]]

DictDel(d, k) == [x \in (DOMAIN d) \ {k} |-> d[x]]

\* client_map keeps insertion order (the broadcast iterates over it).
MapKeys(m) == {m[i].id : i \in 1..Len(m)}

MapGet(m, k) == m[CHOOSE i \in 1..Len(m) : m[i].id = k].addr

MapAdd(m, k, a) == Append(m, [id |-> k, addr |-> a])

MapDel(m, k) == SelectSeq(m, LAMBDA e : e.id # k)

MapAddrs(m) == [i \in 1..Len(m) |-> m[i].addr]

\* ------------------------------------------------------------------ threads
\* A lock that lets a thread in while another one holds it.
AcquirableAlways(l) == TRUE

\* Line 246, threading.Lock: `with self.lock` goes on only when no thread
\* holds the lock.
Acquirable(l) == l = {}

\* A with block that keeps the lock when its body raises.
WithRaisesHeld(l) == l

\* Lines 298, 316, 337, 357: `with self.lock:` releases the lock when the
\* body raises, before the error goes on to the enclosing handlers.
WithRaises(l) == {}

Handler(c) == <<"tcp", c>>

UdpThread == <<"udp", 0>>

\* What the first frame of a connection is, to lines 330-331:
\*   "unreadable" receive_object_over_tcp returns None (closed stream, incomplete
\*                header or body, OSError, pickle.UnpicklingError: all caught
\*                inside it) or a falsy object ({}, [], 0, "")
\*   "raises"     line 330 or 331 raises: pickle.loads raises an exception other
\*                than UnpicklingError (EOFError, AttributeError, ImportError),
\*                or the frame is a truthy object without .get ([1], "abc", 7)
\*   "mismatch"   a mapping whose game_id differs from the server's (or is absent)
\*   "match"      a mapping with the server's game_id
Handshakes == {"unreadable", "raises", "mismatch", "match"}

\* `not handshake or handshake.get("game_id") != self.game_id` (line 331).
HandshakeRejected(h) == h \in {"unreadable", "mismatch"}

\* The first frame makes line 330 or line 331 raise.
HandshakeRaises(h) == h = "raises"

\* The first frames connection c can carry: the Client of this model sends
\* its handshake frame; any other peer sends what it likes.
FirstFrames(c) == IF c = c_conn THEN {c_hello} ELSE Handshakes

\* What a read in the keep-alive loop (line 350) is, to lines 71-94 and 351:
\*   "object"      a complete frame whose payload unpickles to an object other
\*                 than None: receive_object_over_tcp returns it
\*   "none"        a complete frame whose payload is the pickle of None
\*   "undecodable" a complete frame whose payload does not unpickle:
\*                 UnpicklingError is caught at line 92 (None is returned),
\*                 another exception of pickle.loads (EOFError, AttributeError)
\*                 goes on to line 353; a frame of length 0 has no payload to
\*                 unpickle (line 88 returns None)
\*   "framing"     the stream ends inside the header or the body (None)
\*   "closed"      the stream is closed or broken (None)
LoopReads == {"object", "none", "undecodable", "framing", "closed"}

\* The Client of this model sends nothing after its handshake frame: a read
\* on its connection returns when the stream is closed or breaks. Any other
\* peer sends what it likes.
LoopFrames(c) == IF c = c_conn THEN {"closed"} ELSE LoopReads

\* Lines 350-353: `if msg is None: break`, and an exception leaves the loop
\* too; only an object other than None goes back to line 350.
AfterLoopRead(r) == IF r = "object" THEN "loop" ELSE "finally"

\* A generator that can return a value again.
uuid4Repeating(used) == Ids

\* The values uuid.uuid4() can return: 122 random bits, modelled as a value
\* that was not returned before. No code inspects the value of a client_id,
\* so the least unused one stands for any of them.
uuid4(used) == {u \in Ids \ used : \A v \in Ids \ used : u <= v}

\* Line 252: self.udp_port, the port the server's UDP socket was bound to.
udp_port == "udp_port"

IdAssignment(cid) == [type |-> "id_assignment", id |-> cid, udp_port |-> udp_port]

\* Connections accepted and datagrams received so far.
InputsSoFar == Cardinality({c \in Conns : hpc[c] # "idle"}) + udp_recvd

\* ------------------------------------ LANDiscoveryService.start_advertising
\* The k-th call of start_advertising creates socket k and starts thread k.
Advertisers == 1..MaxStarts

NextAdvertiser ==
    CHOOSE k \in Advertisers :
        apc[k] = "unborn" /\ \A j \in Advertisers : j < k => apc[j] # "unborn"

\* Lines 146-152: advertising = True, a new socket is stored in self.sock
\* (the one stored before is neither closed nor kept), and a new thread is
\* started on _broadcast_loop. There is no test of self.advertising.
start_advertising ==
    /\ advertising' = TRUE
    /\ a_sock' = NextAdvertiser
    /\ a_open' = a_open \cup {NextAdvertiser}
    /\ apc' = [apc EXCEPT ![NextAdvertiser] = "test"]
    /\ UNCHANGED a_sent

\* The game (or a Server it handed the service to, line 264) calls
\* start_advertising.
StartAdvertising ==
    /\ \E k \in Advertisers : apc[k] = "unborn"
    /\ start_advertising
    /\ UNCHANGED <<svars, cvars, dvars, fvars>>

\* Lines 154-157, stop_advertising: advertising = False, and self.sock, if
\* there is one, is closed (closing a closed socket changes nothing).
StopAdvertising ==
    /\ advertising' = FALSE
    /\ a_open' = a_open \ {a_sock}
    /\ UNCHANGED <<a_sock, apc, a_sent>>
    /\ UNCHANGED <<svars, cvars, dvars, fvars>>

\* Line 160: while self.advertising.
AdvertiseTest(k) ==
    /\ apc[k] = "test"
    /\ apc' = [apc EXCEPT ![k] = IF advertising THEN "send" ELSE "exited"]
    /\ UNCHANGED <<advertising, a_sock, a_open, a_sent>>
    /\ UNCHANGED <<svars, cvars, dvars, fvars>>

\* Line 163: self.sock.sendto(...) returns on an open socket, or raises.
AdvertiseOutcomes == IF a_sock \in a_open THEN {"sent", "raises"} ELSE {"raises"}

\* Lines 161-165: the announcement is sent on self.sock, whichever socket
\* that is now (an error is swallowed by the bare except), then the thread
\* sleeps BROADCAST_INTERVAL and goes back to the test.
AdvertiseSend(k) ==
    /\ apc[k] = "send"
    /\ \E o \in AdvertiseOutcomes :
         a_sent' = IF o = "sent" THEN a_sent \cup {k} ELSE a_sent
    /\ apc' = [apc EXCEPT ![k] = "test"]
    /\ UNCHANGED <<advertising, a_sock, a_open>>
    /\ UNCHANGED <<svars, cvars, dvars, fvars>>

\* ------------------------------------------------------------ Server.start
\* Lines 260-264: the acceptor thread and the UDP listener thread are started
\* and the server's discovery service is told to advertise; start returns
\* without waiting for any of the threads.
ServerStart ==
    /\ tpc = "off"
    /\ tpc' = "spawned"
    /\ upc' = "recv"
    /\ start_advertising
    /\ UNCHANGED <<game_state, client_map, clients_tcp, lock, hpc, handshake,
                   client_id, sock_closed, tcp_out, minted, upkt, ubcast,
                   udp_recvd>>
    /\ UNCHANGED <<cvars, dvars, fvars>>

\* Lines 270-273, in the acceptor thread: the listening socket is created,
\* bound and set to listen. bind raises OSError when the port is taken: the
\* thread ends with the error.
BindOutcomes == {"listening", "crashed"}

TcpListen ==
    /\ tpc = "spawned"
    /\ \E o \in BindOutcomes : tpc' = o
    /\ UNCHANGED <<game_state, client_map, clients_tcp, lock, hpc, handshake,
                   client_id, sock_closed, tcp_out, minted, upc, upkt, ubcast,
                   udp_recvd>>
    /\ UNCHANGED <<cvars, dvars, avars, fvars>>

\* ------------------------------------------------- Server._handle_client_tcp
\* Server._run_tcp_server: accept() returns a connection and a handler thread
\* is started for it; the acceptor loop takes the connections one after the
\* other, so connection c is the c-th accepted.
Accept(c) ==
    /\ tpc = "listening"
    /\ hpc[c] = "idle"
    /\ \A b \in Conns : b < c => hpc[b] # "idle"
    /\ InputsSoFar < MaxInputs
    /\ hpc' = [hpc EXCEPT ![c] = "handshake"]
    /\ UNCHANGED <<game_state, client_map, clients_tcp, lock, handshake, client_id,
                   sock_closed, tcp_out, minted, upc, upkt, ubcast,
                   udp_recvd>>
    /\ UNCHANGED <<tpc, cvars, dvars, avars, fvars>>

\* Lines 330-336: read the first frame (the peer decides what it is) and
\* check the game id.
\*   rejected: client_sock.close(); return  -> the finally block runs
\*   raises:   except Exception: self.log(f"... {client_id} ...") raises
\*             UnboundLocalError inside the handler -> the finally block runs
\*   else:     client_id = str(uuid.uuid4())
HandleHandshake(c) ==
    /\ hpc[c] = "handshake"
    /\ \E h \in FirstFrames(c) :
         /\ handshake' = [handshake EXCEPT ![c] = h]
         /\ IF HandshakeRejected(h)
            THEN /\ sock_closed' = [sock_closed EXCEPT ![c] = TRUE]
                 /\ hpc' = [hpc EXCEPT ![c] = "finally"]
                 /\ UNCHANGED <<client_id, minted>>
            ELSE IF HandshakeRaises(h)
            THEN /\ hpc' = [hpc EXCEPT ![c] = "finally"]
                 /\ UNCHANGED <<sock_closed, client_id, minted>>
            ELSE /\ \E u \in uuid4(minted) :
                      /\ client_id' = [client_id EXCEPT ![c] = {u}]
                      /\ minted' = minted \cup {u}
                 /\ hpc' = [hpc EXCEPT ![c] = "append_lock"]
                 /\ UNCHANGED sock_closed
    /\ UNCHANGED <<game_state, client_map, clients_tcp, lock, tcp_out, upc,
                   upkt, ubcast, udp_recvd>>
    /\ UNCHANGED <<tpc, cvars, dvars, avars, fvars>>

\* Line 337: with self.lock (acquire).
AppendAcquire(c) ==
    /\ hpc[c] = "append_lock"
    /\ Acquirable(lock)
    /\ lock' = {Handler(c)}
    /\ hpc' = [hpc EXCEPT ![c] = "append"]
    /\ UNCHANGED <<game_state, client_map, clients_tcp, handshake, client_id,
                   sock_closed, tcp_out, minted, upc, upkt, ubcast,
                   udp_recvd>>
    /\ UNCHANGED <<tpc, cvars, dvars, avars, fvars>>

\* Line 337: self.clients_tcp.append(client_sock), and the lock is released.
AppendClient(c) ==
    /\ hpc[c] = "append"
    /\ clients_tcp' = Append(clients_tcp, c)
    /\ lock' = {}
    /\ hpc' = [hpc EXCEPT ![c] = "send_id"]
    /\ UNCHANGED <<game_state, client_map, handshake, client_id, sock_closed,
                   tcp_out, minted, upc, upkt, ubcast, udp_recvd>>
    /\ UNCHANGED <<tpc, cvars, dvars, avars, fvars>>

\* Lines 340-344: send_object_over_tcp(client_sock, {"type": "id_assignment", ...}).
SendIdMessages(c) == <<IdAssignment(CHOOSE u \in client_id[c] : TRUE)>>

\* The handler hands the message to send_object_over_tcp once and goes on to
\* the keep-alive loop. (An error of sendall on a broken stream is swallowed
\* at lines 67-68, so the handler takes the same path whether or not the
\* bytes reach the peer; tcp_out records what was handed to the stream.)
SendId(c) ==
    /\ hpc[c] = "send_id"
    /\ tcp_out' = [tcp_out EXCEPT ![c] = @ \o SendIdMessages(c)]
    /\ hpc' = [hpc EXCEPT ![c] = "loop"]
    /\ UNCHANGED <<game_state, client_map, clients_tcp, lock, handshake,
                   client_id, sock_closed, minted, upc, upkt, ubcast,
                   udp_recvd>>
    /\ UNCHANGED <<tpc, cvars, dvars, avars, fvars>>

\* Lines 349-353: one read of the keep-alive loop, yielding r.
LoopReadWith(c, r) ==
    /\ hpc[c] = "loop"
    /\ r \in LoopFrames(c)
    /\ hpc' = [hpc EXCEPT ![c] = AfterLoopRead(r)]
    /\ UNCHANGED <<game_state, client_map, clients_tcp, lock, handshake,
                   client_id, sock_closed, tcp_out, minted, upc, upkt, ubcast,
                   udp_recvd>>
    /\ UNCHANGED <<tpc, cvars, dvars, avars, fvars>>

LoopRead(c) == \E r \in LoopReads : LoopReadWith(c, r)

\* Line 357: with self.lock (acquire) in the finally block.
FinallyAcquire(c) ==
    /\ hpc[c] = "finally"
    /\ Acquirable(lock)
    /\ lock' = {Handler(c)}
    /\ hpc' = [hpc EXCEPT ![c] = "teardown"]
    /\ UNCHANGED <<game_state, client_map, clients_tcp, handshake, client_id,
                   sock_closed, tcp_out, minted, upc, upkt, ubcast, udp_recvd>>
    /\ UNCHANGED <<tpc, cvars, dvars, avars, fvars>>

\* Line 358: if client_sock in self.clients_tcp: self.clients_tcp.remove(client_sock).
TeardownTcp(tcp, c) == SelectSeq(tcp, LAMBDA s : s # c)

\* A teardown that leaves the entry of game_state in place.
TeardownStateKept(gs, cid) == gs

\* Line 359: if client_id in self.game_state: del self.game_state[client_id].
TeardownState(gs, cid) == DictDel(gs, cid)

\* A teardown that leaves the entry of client_map in place.
TeardownMapKept(m, cid) == m

\* Line 360: if client_id in self.client_map: del self.client_map[client_id].
TeardownMap(m, cid) == MapDel(m, cid)

\* Lines 357-361: the body of the critical section, one statement at a time
\* (the lock is held from line 357 on), and what follows it.
\* Line 358: the stream is removed from clients_tcp if it is there.
TeardownRemoveTcp(c) ==
    /\ hpc[c] = "teardown"
    /\ clients_tcp' = TeardownTcp(clients_tcp, c)
    /\ hpc' = [hpc EXCEPT ![c] = "teardown_state"]
    /\ UNCHANGED <<game_state, client_map, lock, handshake, client_id,
                   sock_closed, tcp_out, minted, upc, upkt, ubcast, udp_recvd>>
    /\ UNCHANGED <<tpc, cvars, dvars, avars, fvars>>

\* Line 359. With client_id unbound (no id was assigned) the line raises
\* UnboundLocalError: the with block releases the lock and the thread ends
\* with the error, so line 361 is not reached.
TeardownRemoveState(c) ==
    /\ hpc[c] = "teardown_state"
    /\ IF client_id[c] = {}
       THEN /\ hpc' = [hpc EXCEPT ![c] = "crashed"]
            /\ lock' = WithRaises(lock)
            /\ UNCHANGED game_state
       ELSE /\ game_state' = TeardownState(game_state, CHOOSE u \in client_id[c] : TRUE)
            /\ hpc' = [hpc EXCEPT ![c] = "teardown_map"]
            /\ UNCHANGED lock
    /\ UNCHANGED <<client_map, clients_tcp, handshake, client_id, sock_closed,
                   tcp_out, minted, upc, upkt, ubcast, udp_recvd>>
    /\ UNCHANGED <<tpc, cvars, dvars, avars, fvars>>

\* Line 360, the end of the with block (the lock is released) and line 361,
\* client_sock.close(); the handler returns.
TeardownRemoveMap(c) ==
    /\ hpc[c] = "teardown_map"
    /\ client_map' = TeardownMap(client_map, CHOOSE u \in client_id[c] : TRUE)
    /\ lock' = {}
    /\ sock_closed' = [sock_closed EXCEPT ![c] = TRUE]
    /\ hpc' = [hpc EXCEPT ![c] = "done"]
    /\ UNCHANGED <<game_state, clients_tcp, handshake, client_id, tcp_out,
                   minted, upc, upkt, ubcast, udp_recvd>>
    /\ UNCHANGED <<tpc, cvars, dvars, avars, fvars>>

Teardown(c) ==
    \/ TeardownRemoveTcp(c)
    \/ TeardownRemoveState(c)
    \/ TeardownRemoveMap(c)

\* --------------------------------------------------- Server._run_udp_listener
\* What a datagram received on the UDP port is, to lines 295-305:
\*   "ok"         pickle.loads gives a pair (client_id, payload), client_id hashable
\*   "unpickling" pickle.loads raises pickle.UnpicklingError (caught, line 310)
\*   "wronglen"   an iterable of another length: ValueError (caught, line 310)
\*   "eof"        an empty datagram: pickle.loads raises EOFError (not caught)
\*   "noniter"    a value that cannot be unpacked: TypeError (not caught)
\*   "unhashable" a pair whose client_id is unhashable: TypeError at line 300
DatagramKinds == {"ok", "unpickling", "wronglen", "eof", "noniter", "unhashable"}

Malformed(kind) == [kind |-> kind, id |-> ForeignId, payload |-> "p1", addr |-> "a1"]

\* The datagrams that can be sent to the server: a well-formed one carries an
\* id some handshake minted, or a foreign one.
Datagrams(known) ==
    [kind : {"ok"}, id : known \cup {ForeignId}, payload : Payloads, addr : Addrs]
      \cup {Malformed(k) : k \in DatagramKinds \ {"ok"}}

NoDatagram == Malformed("none")

\* What one call of _broadcast_udp_state did: done = the snapshot was pickled
\* and the send loop entered; targets = the addresses of client_map then;
\* sent = the sendto calls that returned; failed = one of them raised.
NoBcast == [tried |-> FALSE, done |-> FALSE, state |-> EmptyDict,
            targets |-> <<>>, sent |-> 0, failed |-> FALSE]

\* Where _process_client_packet goes after line 295 (pickle.loads and the
\* unpacking of the pair): on to the critical section, back to recvfrom (the
\* error is caught at line 310), or out of the thread (the error is caught
\* neither at line 310 nor at line 288).
AfterUnpack(kind) ==
    IF kind \in {"ok", "unhashable"} THEN "lock"
    ELSE IF kind \in {"unpickling", "wronglen"} THEN "recv"
    ELSE "crashed"

\* Lines 286-287, 295: recvfrom returns a datagram some peer sent (a Client's
\* send_update, or anyone on the LAN; datagrams may be delayed, duplicated and
\* reordered, so any datagram that can be sent can arrive now); it is
\* unpickled and unpacked.
UdpRecvFrom(d) ==
    /\ upc = "recv"
    /\ InputsSoFar < MaxInputs
    /\ udp_recvd' = udp_recvd + 1
    /\ upkt' = IF AfterUnpack(d.kind) = "recv" THEN NoDatagram ELSE d
    /\ upc' = AfterUnpack(d.kind)
    /\ UNCHANGED ubcast
    /\ UNCHANGED <<game_state, client_map, clients_tcp, lock, hpc, handshake,
                   client_id, sock_closed, tcp_out, minted>>
    /\ UNCHANGED <<tpc, cvars, dvars, avars, fvars>>

UdpRecv == \E d \in Datagrams(minted) : UdpRecvFrom(d)

\* Line 298: with self.lock (acquire).
UdpAcquire ==
    /\ upc = "lock"
    /\ Acquirable(lock)
    /\ lock' = {UdpThread}
    /\ upc' = "update"
    /\ UNCHANGED <<game_state, client_map, clients_tcp, hpc, handshake,
                   client_id, sock_closed, tcp_out, minted, upkt,
                   ubcast, udp_recvd>>
    /\ UNCHANGED <<tpc, cvars, dvars, avars, fvars>>

\* A registration that takes the endpoint of every datagram.
RegisterAddrLatest(m, cid, addr) == MapAdd(MapDel(m, cid), cid, addr)

\* Lines 300-301: if client_id not in self.client_map: self.client_map[client_id] = addr.
RegisterAddr(m, cid, addr) == IF cid \in MapKeys(m) THEN m ELSE MapAdd(m, cid, addr)

\* Line 305: self.game_state[client_id] = payload.
UpdateState(gs, cid, payload) == DictSet(gs, cid, payload)

\* Lines 300-305, the body of the critical section; the with block ends and
\* the lock is released. An unhashable client_id raises TypeError in the
\* membership test of line 300: the with block releases the lock, and the
\* error, caught neither at line 310 nor at line 288, ends the listener thread.
UdpUpdate ==
    /\ upc = "update"
    /\ IF upkt.kind = "unhashable"
       THEN /\ upc' = "crashed"
            /\ lock' = WithRaises(lock)
            /\ UNCHANGED <<client_map, game_state>>
       ELSE /\ client_map' = RegisterAddr(client_map, upkt.id, upkt.addr)
            /\ game_state' = UpdateState(game_state, upkt.id, upkt.payload)
            /\ upc' = "bcast_lock"
            /\ lock' = {}
    /\ UNCHANGED <<clients_tcp, hpc, handshake, client_id, sock_closed,
                   tcp_out, minted, upkt, ubcast, udp_recvd>>
    /\ UNCHANGED <<tpc, cvars, dvars, avars, fvars>>

\* ------------------------------------------------ Server._broadcast_udp_state
\* Line 316: with self.lock (acquire).
BroadcastAcquire ==
    /\ upc = "bcast_lock"
    /\ Acquirable(lock)
    /\ lock' = {UdpThread}
    /\ upc' = "bcast"
    /\ UNCHANGED <<game_state, client_map, clients_tcp, hpc, handshake,
                   client_id, sock_closed, tcp_out, minted, upkt,
                   ubcast, udp_recvd>>
    /\ UNCHANGED <<tpc, cvars, dvars, avars, fvars>>

\* Lines 321-324: the number of sendto calls that return, when the call to
\* the entry at position failAt raises (failAt = n + 1: none raises). The
\* try encloses the whole loop, so the first error ends the loop.
SentBeforeError(n, failAt) == IF failAt <= n THEN failAt - 1 ELSE n

\* The entries of game_state that pickle.dumps has not written yet.
Unpickled == DOMAIN game_state \ DOMAIN ubcast.state

\* Line 319, payload = pickle.dumps(self.game_state): the pickler walks the
\* dict and writes one entry after the other (pickling a value can run code
\* of the value's class, so other threads can run in between). The order of
\* the walk does not show in the mapping the bytes stand for: the least key
\* left is taken.
BroadcastPickle ==
    /\ upc = "bcast"
    /\ client_map # <<>>
    /\ Unpickled # {}
    /\ LET k == CHOOSE x \in Unpickled : \A y \in Unpickled : x <= y
       IN ubcast' = [ubcast EXCEPT !.tried = TRUE,
                                   !.state = DictSet(@, k, game_state[k])]
    /\ UNCHANGED <<game_state, client_map, clients_tcp, lock, hpc, handshake,
                   client_id, sock_closed, tcp_out, minted, upc, upkt,
                   udp_recvd>>
    /\ UNCHANGED <<tpc, cvars, dvars, avars, fvars>>

\* Lines 317-322: return if client_map is empty; else, game_state pickled,
\* the one payload is sent to each address of client_map, in order. Any
\* sendto may raise.
BroadcastSend ==
    /\ upc = "bcast"
    /\ IF client_map = <<>>
       THEN ubcast' = [NoBcast EXCEPT !.tried = TRUE]
       ELSE /\ Unpickled = {}
            /\ \E failAt \in 1..(Len(client_map) + 1) :
              ubcast' = [tried |-> TRUE, done |-> TRUE, state |-> ubcast.state,
                         targets |-> MapAddrs(client_map),
                         sent |-> SentBeforeError(Len(client_map), failAt),
                         failed |-> failAt <= Len(client_map)]
    /\ lock' = {}
    /\ upc' = "processed"
    /\ UNCHANGED <<game_state, client_map, clients_tcp, hpc, handshake,
                   client_id, sock_closed, tcp_out, minted, upkt,
                   udp_recvd>>
    /\ UNCHANGED <<tpc, cvars, dvars, avars, fvars>>

\* _process_client_packet returns (its locals are gone) and the listener goes
\* back to line 284, `while self.running`.
UdpLoop ==
    /\ upc = "processed"
    /\ upc' = "recv"
    /\ upkt' = NoDatagram
    /\ ubcast' = NoBcast
    /\ UNCHANGED <<game_state, client_map, clients_tcp, lock, hpc, handshake,
                   client_id, sock_closed, tcp_out, minted, udp_recvd>>
    /\ UNCHANGED <<tpc, cvars, dvars, avars, fvars>>

\* ----------------------------------------------------------------- Client
DISCONNECT_TIMEOUT == 5

UDP_SOCKET_TIMEOUT == 1

\* The clock is read up to MaxTime; time is counted in seconds.
MaxTime == 7

\* The handshake frame {"game_id": game_id} of line 506: the client's game_id
\* is the server's, or another one.
Hellos == {"match", "mismatch"}

\* The connection a connect() made now becomes on the server: the next one its
\* acceptor takes.
NextConn == CHOOSE c \in Conns : hpc[c] = "idle" /\ \A b \in Conns : b < c => hpc[b] # "idle"

\* Lines 497-506 of Client.__init__ (the fields were set at lines 484-495).
\* connect succeeds when the server has a listening socket on the port: the
\* connection waits in its backlog until the acceptor takes it, and the
\* handshake frame is sent. Else connect raises (refused, or timed out after
\* CONNECTION_TIMEOUT): lines 522-524 set running = False, no listener thread
\* is started, and the scene's constructor (lines 447-451, 468-472) goes on
\* with a client that is not connected.
ClientConnect ==
    /\ ipc = "new"
    /\ \E c \in Conns : hpc[c] = "idle"
    /\ IF tpc = "listening"
       THEN /\ c_conn' = NextConn
            /\ \E h \in Hellos : c_hello' = h
            /\ ipc' = "wait"
            /\ UNCHANGED <<c_running, scene_running>>
       ELSE /\ c_running' = FALSE
            /\ ipc' = "built"
            /\ scene_running' = TRUE
            /\ UNCHANGED <<c_conn, c_hello>>
    /\ UNCHANGED <<c_connected, c_id, c_latest_state, last_packet_time, now,
                   recv_start, lpc, silent, disc_called, frame, fpc, c_port,
                   c_out, c_closed, stops>>
    /\ UNCHANGED <<svars, dvars, avars, fvars>>

\* What receive_object_over_tcp returns at line 510 when the stream was closed
\* by the server (or broke): None.
NoResponse == [type |-> "None", id |-> ForeignId, udp_port |-> "None"]

\* The frame the client reads at line 510: the one the handler of its
\* connection sent, or None once the handler closed the stream without sending.
Response == IF tcp_out[c_conn] # <<>> THEN Head(tcp_out[c_conn]) ELSE NoResponse

\* A client that takes whatever the read returned for an id_assignment.
ResponseAcceptedAlways(r) == TRUE

\* Line 511: response and response.get("type") == "id_assignment".
ResponseAccepted(r) == r.type = "id_assignment"

\* Lines 510-517: the blocking read returns when the handler has sent a frame
\* or closed the stream. An id_assignment goes on to lines 512-514; anything
\* else is logged and leaves id, server_udp_port and connected as they are.
ClientReadResponse ==
    /\ ipc = "wait"
    /\ tcp_out[c_conn] # <<>> \/ sock_closed[c_conn]
    /\ ipc' = IF ResponseAccepted(Response) THEN "assign" ELSE "spawn"
    /\ UNCHANGED <<c_running, c_connected, c_id, c_latest_state,
                   last_packet_time, now, recv_start, lpc, silent,
                   scene_running, disc_called, frame, fpc, c_conn, c_hello,
                   c_port, c_out, c_closed, stops>>
    /\ UNCHANGED <<svars, dvars, avars, fvars>>

\* A constructor that announces the connection before it stores id and port.
AssignOrderConnectedFirst == <<"connected", "id", "udp_port">>

\* Lines 512-514, in the order of the source.
AssignOrder == <<"id", "udp_port", "connected">>

\* How many of the three assignments were made (only read during construction).
Assigned ==
    Cardinality({f \in {"id", "udp_port", "connected"} :
                    \/ f = "id" /\ c_id # {}
                    \/ f = "udp_port" /\ c_port # {}
                    \/ f = "connected" /\ c_connected})

\* One of lines 512-514: self.id = response["id"],
\* self.server_udp_port = response["udp_port"], self.connected = True.
ClientAssign ==
    /\ ipc = "assign"
    /\ LET f == AssignOrder[Assigned + 1]
       IN /\ c_id' = IF f = "id" THEN {Response.id} ELSE c_id
          /\ c_port' = IF f = "udp_port" THEN {Response.udp_port} ELSE c_port
          /\ c_connected' = IF f = "connected" THEN TRUE ELSE c_connected
    /\ ipc' = IF Assigned = 2 THEN "spawn" ELSE "assign"
    /\ UNCHANGED <<c_running, c_latest_state, last_packet_time, now,
                   recv_start, lpc, silent, scene_running, disc_called, frame,
                   fpc, c_conn, c_hello, c_out, c_closed, stops>>
    /\ UNCHANGED <<svars, dvars, avars, fvars>>

\* Line 520: the listener thread is started and Client.__init__ returns; the
\* scene's constructor finishes (lines 447-451, 468-472) and the game starts
\* the scene.
ClientSpawn ==
    /\ ipc = "spawn"
    /\ lpc' = "start"
    /\ ipc' = "built"
    /\ scene_running' = TRUE
    /\ UNCHANGED <<c_running, c_connected, c_id, c_latest_state,
                   last_packet_time, now, recv_start, silent, disc_called,
                   frame, fpc, c_conn, c_hello, c_port, c_out, c_closed,
                   stops>>
    /\ UNCHANGED <<svars, dvars, avars, fvars>>

\* ------------------------------------------------------- Client.send_update
\* What get_local_state can return, or a caller can pass to send_update: None,
\* a payload, or an object pickle cannot serialise (a lambda, a Surface).
Unpicklable == "lambda"

LocalStates == {"None"} \cup Payloads \cup {Unpicklable}

\* Line 582: pickle.dumps((self.id, data)) returns (else it raises, line 585).
Pickles(data) == data # Unpicklable

\* Line 584: sendto returns, or raises (the socket was closed meanwhile, the
\* network is unreachable): caught at line 585.
SendtoOutcomes == {"sent", "raises"}

\* A guard that forgets the connected flag.
SendUpdateSendsUnconnected == c_running /\ c_id # {} /\ c_port # {}

\* Line 579: send_update returns at once unless
\* self.running and self.id and self.server_udp_port and self.connected.
SendUpdateSends == c_running /\ c_id # {} /\ c_port # {} /\ c_connected

\* A send_update that packs the payload without the id.
send_update_anonymous(data, o) ==
    IF SendUpdateSends /\ Pickles(data) /\ o = "sent"
    THEN <<[id |-> {}, payload |-> data, to |-> c_port]>>
    ELSE <<>>

\* Lines 577-586: the datagrams one call of send_update sends.
send_update(data, o) ==
    IF SendUpdateSends /\ Pickles(data) /\ o = "sent"
    THEN <<[id |-> c_id, payload |-> data, to |-> c_port]>>
    ELSE <<>>

\* No call of send_update so far.
NoCall == [data |-> "None", sent |-> <<>>]

\* The game calls client.send_update(data) itself (the client is part of the
\* scene's surface), at any time once the client is constructed.
SendUpdateCall(data, o) ==
    /\ ipc = "built"
    /\ c_out' = [data |-> data, sent |-> send_update(data, o)]
    /\ UNCHANGED <<c_running, c_connected, c_id, c_latest_state,
                   last_packet_time, now, recv_start, lpc, silent,
                   scene_running, disc_called, frame, fpc, ipc, c_conn,
                   c_hello, c_port, c_closed, stops>>
    /\ UNCHANGED <<svars, dvars, avars, fvars>>

\* ------------------------------------------------------- Client._listen_udp
\* Lines 539-543: the registration datagram (if the client has an id and a
\* port), then last_packet_time = time.time().
ListenStart ==
    /\ lpc = "start"
    /\ \E o \in SendtoOutcomes :
         c_out' = IF c_id # {} /\ c_port # {}
                  THEN [data |-> "init", sent |-> send_update("init", o)]
                  ELSE c_out
    /\ last_packet_time' = now
    /\ lpc' = "loop"
    /\ UNCHANGED <<c_running, c_connected, c_id, c_latest_state, now,
                   recv_start, silent, scene_running, disc_called, frame, fpc,
                   ipc, c_conn, c_hello, c_port, c_closed, stops>>
    /\ UNCHANGED <<svars, dvars, avars, fvars>>

\* Line 545: while self.running and self.connected; then recvfrom is called.
ListenLoop ==
    /\ lpc = "loop"
    /\ IF c_running /\ c_connected
       THEN lpc' = "recv" /\ recv_start' = now
       ELSE lpc' = "exited" /\ UNCHANGED recv_start
    /\ UNCHANGED <<c_running, c_connected, c_id, c_latest_state,
                   last_packet_time, now, silent, scene_running, disc_called,
                   frame, fpc, ipc, c_conn, c_hello, c_port, c_out, c_closed,
                   stops>>
    /\ UNCHANGED <<svars, dvars, avars, fvars>>

\* What a datagram received by the client is, to lines 561-567:
\*   "ok"         pickle.loads returns a snapshot
\*   "unpickling" pickle.loads raises UnpicklingError or ValueError (caught, line 566)
\*   "raises"     pickle.loads raises another exception (EOFError for an empty
\*                datagram, AttributeError, ImportError): caught at line 555
ClientDatagramKinds == {"ok", "unpickling", "raises"}

\* The snapshots a datagram can carry, by their keys.
Snapshots == SUBSET {1}

\* Where the listener goes after _handle_udp_packet: line 555-557 breaks.
AfterPacket(kind) == IF kind = "raises" THEN "exited" ELSE "loop"

\* Lines 547-548, 559-567: recvfrom returns a datagram of the given kind
\* (carrying snapshot st if well-formed). Line 561 sets last_packet_time
\* before the datagram is unpickled.
ListenDataWith(kind, st) ==
    /\ lpc = "recv"
    /\ c_running
    /\ ~silent
    /\ last_packet_time' = now
    /\ c_latest_state' = IF kind = "ok" THEN st ELSE c_latest_state
    /\ lpc' = AfterPacket(kind)
    /\ UNCHANGED <<c_running, c_connected, c_id, now, recv_start, silent,
                   scene_running, disc_called, frame, fpc, ipc, c_conn,
                   c_hello, c_port, c_out, c_closed, stops>>
    /\ UNCHANGED <<svars, dvars, avars, fvars>>

ListenData ==
    \E kind \in ClientDatagramKinds, st \in Snapshots : ListenDataWith(kind, st)

\* A timeout test that sets the flag both ways.
HandleTimeoutRevives(connected, t, last) == t - last <= DISCONNECT_TIMEOUT

\* A timeout test that disconnects at DISCONNECT_TIMEOUT already.
HandleTimeoutAtLimit(connected, t, last) ==
    IF t - last >= DISCONNECT_TIMEOUT THEN FALSE ELSE connected

\* Lines 569-573, _handle_timeout: connected after a receive timeout at time t.
HandleTimeout(connected, t, last) ==
    IF t - last > DISCONNECT_TIMEOUT THEN FALSE ELSE connected

\* Lines 549-550: recvfrom raises socket.timeout, UDP_SOCKET_TIMEOUT or more
\* after it was called.
ListenTimeout ==
    /\ lpc = "recv"
    /\ now - recv_start >= UDP_SOCKET_TIMEOUT
    /\ c_connected' = HandleTimeout(c_connected, now, last_packet_time)
    /\ lpc' = "loop"
    /\ UNCHANGED <<c_running, c_id, c_latest_state, last_packet_time, now,
                   recv_start, silent, scene_running, disc_called, frame, fpc,
                   ipc, c_conn, c_hello, c_port, c_out, c_closed, stops>>
    /\ UNCHANGED <<svars, dvars, avars, fvars>>

\* Lines 551-554: recvfrom raises ConnectionError or OSError (the socket was
\* closed by stop, or the system reports an error).
ListenError ==
    /\ lpc = "recv"
    /\ c_connected' = FALSE
    /\ lpc' = "exited"
    /\ UNCHANGED <<c_running, c_id, c_latest_state, last_packet_time, now,
                   recv_start, silent, scene_running, disc_called, frame, fpc,
                   ipc, c_conn, c_hello, c_port, c_out, c_closed, stops>>
    /\ UNCHANGED <<svars, dvars, avars, fvars>>

\* A second passes.
Tick ==
    /\ now < MaxTime
    /\ now' = now + 1
    /\ UNCHANGED <<c_running, c_connected, c_id, c_latest_state,
                   last_packet_time, recv_start, lpc, silent, scene_running,
                   disc_called, frame, fpc, ipc, c_conn, c_hello, c_port,
                   c_out, c_closed, stops>>
    /\ UNCHANGED <<svars, dvars, avars, fvars>>

\* A second passes once the clock reads MaxTime: the clock keeps its value
\* and the two time stamps move back instead, which keeps the differences
\* the code computes (exactly up to the thresholds they are compared with).
Earlier(stamp, threshold) == IF now - stamp >= threshold THEN stamp ELSE stamp - 1

TickOn ==
    /\ now = MaxTime
    /\ last_packet_time' = Earlier(last_packet_time, DISCONNECT_TIMEOUT + 1)
    /\ recv_start' = Earlier(recv_start, UDP_SOCKET_TIMEOUT)
    /\ UNCHANGED <<c_running, c_connected, c_id, c_latest_state, now, lpc,
                   silent, scene_running, disc_called, frame, fpc, ipc,
                   c_conn, c_hello, c_port, c_out, c_closed, stops>>
    /\ UNCHANGED <<svars, dvars, avars, fvars>>

\* The server goes away: no datagram reaches the client any more.
BeginSilence ==
    /\ ~silent
    /\ silent' = TRUE
    /\ UNCHANGED <<c_running, c_connected, c_id, c_latest_state,
                   last_packet_time, now, recv_start, lpc, scene_running,
                   disc_called, frame, fpc, ipc, c_conn, c_hello, c_port,
                   c_out, c_closed, stops>>
    /\ UNCHANGED <<svars, dvars, avars, fvars>>

\* ----------------------------------------------------------- NetworkScene
\* Calls of Client.stop made by the game itself.
MaxStops == 2

\* A stop that closes the TCP socket only.
StopClosesTcpOnly(closed) == closed \cup {"tcp"}

\* Lines 597-600: tcp_sock.close() and udp_sock.close(), each in a try of
\* its own that swallows every error (closing a closed socket is no error).
StopCloses(closed) == closed \cup {"tcp", "udp"}

\* A process that sends before it updates.
ProcessOrderSendFirst == <<"send", "update">>

\* Lines 401-402: self._update_from_network(), then self._send_local_state().
ProcessOrder == <<"update", "send">>

\* Where process goes after the call `step`: to the next call, or it returns.
AfterCall(step) ==
    IF step = ProcessOrder[1] THEN ProcessOrder[2] ELSE "idle"

\* A gate that calls the hook and goes on with the frame.
AfterDisconnectGoesOn == ProcessOrder[1]

\* Line 399: return, after on_server_disconnect.
AfterDisconnect == "idle"

NoFrame == <<>>

\* Lines 395-399, NetworkScene.process, called by the engine once per frame:
\* the disconnect gate. Disconnected: on_server_disconnect (lines 428-435:
\* NetworkScene.stop, which calls Client.stop and stops the scene), return.
FrameGate ==
    /\ scene_running
    /\ fpc = "idle"
    /\ IF ~c_connected
       THEN /\ disc_called' = TRUE
            /\ c_running' = FALSE
            /\ c_closed' = StopCloses(c_closed)
            /\ stops' = stops + 1
            /\ scene_running' = FALSE
            /\ frame' = <<"on_server_disconnect">>
            /\ fpc' = AfterDisconnect
       ELSE /\ frame' = NoFrame
            /\ fpc' = ProcessOrder[1]
            /\ UNCHANGED <<disc_called, c_running, c_closed, stops,
                           scene_running>>
    /\ UNCHANGED <<c_connected, c_id, c_latest_state, last_packet_time, now,
                   recv_start, lpc, silent, ipc, c_conn, c_hello, c_port,
                   c_out>>
    /\ UNCHANGED <<svars, dvars, avars, fvars>>

\* A get_latest_state that hands out the client's own mapping.
get_latest_state_shared(latest) == [obj |-> "latest_state", keys |-> latest]

\* Lines 588-589: with self.lock: return self.latest_state.copy(), a new
\* mapping with the keys (and values) of latest_state.
get_latest_state(latest) == [obj |-> "copy", keys |-> latest]

\* What handle_network_state (overridden by the game) can do to the keys of
\* the mapping it is given: keep them, or delete some.
HandlerEdits(keys) == SUBSET keys

\* Lines 404-411, _update_from_network: the latest state, if not empty, is
\* passed to handle_network_state, which may edit the mapping it was given.
FrameUpdate ==
    /\ fpc = "update"
    /\ LET state == get_latest_state(c_latest_state)
       IN IF state.keys # {}
          THEN /\ frame' = frame \o <<"get_latest_state", "handle_network_state">>
               /\ \E edited \in HandlerEdits(state.keys) :
                    c_latest_state' = IF state.obj = "latest_state"
                                      THEN edited ELSE c_latest_state
          ELSE /\ frame' = Append(frame, "get_latest_state")
               /\ UNCHANGED c_latest_state
    /\ fpc' = AfterCall("update")
    /\ UNCHANGED <<c_running, c_connected, c_id, last_packet_time, now,
                   recv_start, lpc, silent, scene_running, disc_called, ipc,
                   c_conn, c_hello, c_port, c_out, c_closed, stops>>
    /\ UNCHANGED <<svars, dvars, avars, fvars>>

\* Lines 417-422, _send_local_state: with an id, get_local_state is asked and
\* what it returns, unless None, is passed to send_update.
\* (data is what get_local_state returns when asked, o what sendto does.)
FrameSendWith(data, o) ==
    /\ fpc = "send"
    /\ IF c_id # {}
       THEN IF data # "None"
            THEN /\ frame' = frame \o <<"get_local_state", "send_update">>
                 /\ c_out' = [data |-> data, sent |-> send_update(data, o)]
            ELSE /\ frame' = Append(frame, "get_local_state")
                 /\ UNCHANGED c_out
       ELSE UNCHANGED <<frame, c_out>>
    /\ fpc' = AfterCall("send")
    /\ UNCHANGED <<c_running, c_connected, c_id, c_latest_state,
                   last_packet_time, now, recv_start, lpc, silent,
                   scene_running, disc_called, ipc, c_conn, c_hello, c_port,
                   c_closed, stops>>
    /\ UNCHANGED <<svars, dvars, avars, fvars>>

FrameSend == \E data \in LocalStates, o \in SendtoOutcomes : FrameSendWith(data, o)

\* One step of NetworkScene.process.
Frame == FrameGate \/ FrameUpdate \/ FrameSend

\* Lines 433-435, 594-600: the game calls NetworkScene.stop, which calls
\* Client.stop (running = False, connected = False, both sockets are closed)
\* and stops the scene. It can be called again on a stopped scene.
SceneStop ==
    /\ ipc = "built"
    /\ stops < MaxStops
    /\ c_running' = FALSE
    /\ c_connected' = FALSE
    /\ c_closed' = StopCloses(c_closed)
    /\ stops' = stops + 1
    /\ scene_running' = FALSE
    /\ UNCHANGED <<c_id, c_latest_state, last_packet_time, now, recv_start,
                   lpc, silent, disc_called, frame, fpc, ipc, c_conn, c_hello,
                   c_port, c_out>>
    /\ UNCHANGED <<svars, dvars, avars, fvars>>

\* ------------------------------------------- LANDiscoveryService.find_games
\* Datagrams one find_games scan receives.
MaxAnnouncements == 3

Ips == {"ip1", "ip2"}
GameIds == {"match", "mismatch"}
HostNames == {"h1", "absent"}
TcpPorts == {"port_a", "None"}

\* What a datagram on the broadcast port holds: a pickled mapping (lines
\* 161-163 send game_id, host_name and tcp_port; any sender may leave keys
\* out), a pickled object that is no mapping, or bytes that do not unpickle.
\* frm is addr[0] of recvfrom.
Announcements ==
    [frm : Ips, kind : {"dict"}, game_id : GameIds, host_name : HostNames,
     tcp_port : TcpPorts]
    \cup [frm : Ips, kind : {"nondict", "garbage"}, game_id : {"mismatch"},
          host_name : {"absent"}, tcp_port : {"None"}]

\* A check that takes two entries for the same only when all keys agree.
KnownSameRecord(hosts, info) ==
    \E i \in DOMAIN hosts : hosts[i] = info

\* Line 213: any(h['ip'] == host_info['ip'] and
\*                h['tcp_port'] == host_info['tcp_port'] for h in hosts).
Known(hosts, info) ==
    \E i \in DOMAIN hosts :
        hosts[i].ip = info.ip /\ hosts[i].tcp_port = info.tcp_port

\* Lines 206-211: name is message.get("host_name", addr[0]), ip is addr[0],
\* tcp_port is message.get("tcp_port") (None when the key is absent).
HostInfo(a) ==
    [name |-> IF a.host_name = "absent" THEN a.frm ELSE a.host_name,
     ip |-> a.frm,
     tcp_port |-> a.tcp_port,
     game_id |-> a.game_id]

\* A _process_packet that does not look at the game_id.
process_packet_any_game(hosts, a) ==
    IF a.kind = "dict" /\ ~Known(hosts, HostInfo(a))
    THEN Append(hosts, HostInfo(a))
    ELSE hosts

\* Lines 202-216, _process_packet with target game id "match": bytes that
\* do not unpickle and objects without .get raise inside the try and are
\* dropped by `except Exception: pass`; a mapping with another game_id is
\* skipped; a matching one is appended unless Known.
process_packet(hosts, a) ==
    IF a.kind = "dict" /\ a.game_id = "match" /\ ~Known(hosts, HostInfo(a))
    THEN Append(hosts, HostInfo(a))
    ELSE hosts

\* Lines 167-168 and 181-189: find_games starts with an empty list and a
\* socket with a 1 s timeout (a failing bind is swallowed: the scan then
\* receives nothing). Every call starts afresh.
FindGames ==
    /\ dpc \in {"idle", "returned"}
    /\ discovered_hosts' = <<>>
    /\ scanned' = <<>>
    /\ dpc' = "listening"
    /\ UNCHANGED <<svars, cvars, avars, fvars>>

\* Lines 193-196: inside the time limit, recvfrom hands over a datagram and
\* _process_packet handles it. (A recvfrom that times out, line 197, goes
\* back to the loop test and changes nothing.)
DiscoveryRecv(a) ==
    /\ dpc = "listening"
    /\ Len(scanned) < MaxAnnouncements
    /\ scanned' = Append(scanned, a)
    /\ discovered_hosts' = process_packet(discovered_hosts, a)
    /\ UNCHANGED dpc
    /\ UNCHANGED <<svars, cvars, avars, fvars>>

\* Lines 193 and 173-179: the time limit has passed; the socket is closed and
\* the list is returned.
DiscoveryReturn ==
    /\ dpc = "listening"
    /\ dpc' = "returned"
    /\ UNCHANGED <<discovered_hosts, scanned>>
    /\ UNCHANGED <<svars, cvars, avars, fvars>>

\* ---------------------------------------------------------------- NetUtils
\* Calls of send_object_over_tcp on the one stream.
MaxFrames == 2

\* The objects sent. The framing does not look inside a payload: three
\* objects whose pickles differ in length and content stand for all.
Objects == {"None", "True", "0"}

\* pickle.dumps(obj), protocol 4: b'\x80\x04N.', b'\x80\x04\x88.', b'\x80\x04K\x00.'.
dumps(obj) ==
    IF obj = "None" THEN <<128, 4, 78, 46>>
    ELSE IF obj = "True" THEN <<128, 4, 136, 46>>
    ELSE <<128, 4, 75, 0, 46>>

\* pickle.loads(data): the object the bytes are the pickle of; bytes that are
\* no pickle raise UnpicklingError, which line 92 turns into None.
loads(data) ==
    IF \E obj \in Objects : dumps(obj) = data
    THEN CHOOSE obj \in Objects : dumps(obj) = data
    ELSE "None"

\* struct.pack('>I', n): four bytes, most significant first.
pack_I(n) ==
    <<(n \div 16777216) % 256, (n \div 65536) % 256, (n \div 256) % 256, n % 256>>

\* An unpack that takes the least significant byte first.
unpack_I_little_endian(b) == b[4] * 16777216 + b[3] * 65536 + b[2] * 256 + b[1]

\* struct.unpack('>I', b)[0].
unpack_I(b) == b[1] * 16777216 + b[2] * 65536 + b[3] * 256 + b[4]

\* Lines 63-65: the bytes send_object_over_tcp hands to sendall.
send_object_over_tcp(obj) == pack_I(Len(dumps(obj))) \o dumps(obj)

\* Line 66: sendall writes the whole frame.
SendObject(obj) ==
    /\ ~w_closed
    /\ Len(w_sent) < MaxFrames
    /\ w_bytes' = w_bytes \o send_object_over_tcp(obj)
    /\ w_sent' = Append(w_sent, obj)
    /\ UNCHANGED <<w_closed, r_pos, rpc, r_buf, r_len, r_got>>
    /\ UNCHANGED <<svars, cvars, dvars, avars>>

\* Lines 66-68: the stream breaks while sendall is writing: k bytes of the
\* frame are on the stream, the error is swallowed.
SendObjectBroken(obj, k) ==
    /\ ~w_closed
    /\ k < Len(send_object_over_tcp(obj))
    /\ w_bytes' = w_bytes \o SubSeq(send_object_over_tcp(obj), 1, k)
    /\ w_closed' = TRUE
    /\ UNCHANGED <<w_sent, r_pos, rpc, r_buf, r_len, r_got>>
    /\ UNCHANGED <<svars, cvars, dvars, avars>>

\* The writer closes the stream.
StreamClose ==
    /\ ~w_closed
    /\ w_closed' = TRUE
    /\ UNCHANGED <<w_bytes, w_sent, r_pos, rpc, r_buf, r_len, r_got>>
    /\ UNCHANGED <<svars, cvars, dvars, avars>>

\* Lines 78-80: receive_object_over_tcp is called and asks receive_all_bytes
\* for the 4 bytes of the header. (One call more than frames were sent: the
\* last one meets the end of the stream.)
ReceiveObject ==
    /\ rpc = "idle"
    /\ Len(r_got) < MaxFrames + 1
    /\ rpc' = "header"
    /\ r_buf' = <<>>
    /\ UNCHANGED <<w_bytes, w_sent, w_closed, r_pos, r_len, r_got>>
    /\ UNCHANGED <<svars, cvars, dvars, avars>>

\* num_bytes of the running receive_all_bytes: 4, then msglen.
Wanted == IF rpc = "header" THEN 4 ELSE r_len

Available == Len(w_bytes) - r_pos

MinOf(a, b) == IF a <= b THEN a ELSE b

\* Lines 102-107 and what follows the return of receive_all_bytes: recv hands
\* out n bytes, at least one and at most num_bytes - len(data); data grows;
\* with the header complete msglen is unpacked (line 84) and the body is
\* asked for (a body of length 0 is b'', which line 88 takes for a failure);
\* with the body complete the object is unpickled and returned (line 91).
RecvSome(n) ==
    /\ rpc \in {"header", "body"}
    /\ n \in 1..MinOf(Wanted - Len(r_buf), Available)
    /\ r_pos' = r_pos + n
    /\ LET data == r_buf \o SubSeq(w_bytes, r_pos + 1, r_pos + n)
       IN IF Len(data) < Wanted
          THEN /\ r_buf' = data
               /\ UNCHANGED <<rpc, r_len, r_got>>
          ELSE IF rpc = "header"
          THEN /\ r_len' = unpack_I(data)
               /\ r_buf' = <<>>
               /\ IF unpack_I(data) = 0
                  THEN rpc' = "idle" /\ r_got' = Append(r_got, "None")
                  ELSE rpc' = "body" /\ UNCHANGED r_got
          ELSE /\ r_got' = Append(r_got, loads(data))
               /\ rpc' = "idle"
               /\ r_buf' = <<>>
               /\ UNCHANGED r_len
    /\ UNCHANGED <<w_bytes, w_sent, w_closed>>
    /\ UNCHANGED <<svars, cvars, dvars, avars>>

\* Line 105: recv returns b'' (the stream is closed and all its bytes were
\* handed out): receive_all_bytes returns None and so does
\* receive_object_over_tcp (lines 81-83, 88-90).
RecvEof ==
    /\ rpc \in {"header", "body"}
    /\ Available = 0
    /\ w_closed
    /\ r_got' = Append(r_got, "None")
    /\ rpc' = "idle"
    /\ r_buf' = <<>>
    /\ UNCHANGED <<w_bytes, w_sent, w_closed, r_pos, r_len>>
    /\ UNCHANGED <<svars, cvars, dvars, avars>>

\* ------------------------------------------------------------ specification
Init ==
    /\ w_bytes = <<>>
    /\ w_sent = <<>>
    /\ w_closed = FALSE
    /\ r_pos = 0
    /\ rpc = "idle"
    /\ r_buf = <<>>
    /\ r_len = 0
    /\ r_got = <<>>
    /\ game_state = EmptyDict
    /\ client_map = <<>>
    /\ clients_tcp = <<>>
    /\ lock = {}
    /\ hpc = [c \in Conns |-> "idle"]
    /\ handshake = [c \in Conns |-> "unreadable"]
    /\ client_id = [c \in Conns |-> {}]
    /\ sock_closed = [c \in Conns |-> FALSE]
    /\ tcp_out = [c \in Conns |-> <<>>]
    /\ minted = {}
    /\ upc = "off"
    /\ upkt = NoDatagram
    /\ ubcast = NoBcast
    /\ udp_recvd = 0
    /\ tpc = "off"
    /\ discovered_hosts = <<>>
    /\ scanned = <<>>
    /\ dpc = "idle"
    /\ advertising = FALSE
    /\ a_sock = 0
    /\ a_open = {}
    /\ apc = [k \in Advertisers |-> "unborn"]
    /\ a_sent = {}
    /\ c_running = TRUE
    /\ c_connected = FALSE
    /\ c_id = {}
    /\ c_latest_state = {}
    /\ last_packet_time = 0
    /\ now = 0
    /\ recv_start = 0
    /\ lpc = "unborn"
    /\ silent = FALSE
    /\ scene_running = FALSE
    /\ disc_called = FALSE
    /\ frame = NoFrame
    /\ fpc = "idle"
    /\ ipc = "new"
    /\ c_conn = 0
    /\ c_hello = "none"
    /\ c_port = {}
    /\ c_out = NoCall
    /\ c_closed = {}
    /\ stops = 0

HandlerStep(c) ==
    \/ Accept(c)
    \/ HandleHandshake(c)
    \/ AppendAcquire(c)
    \/ AppendClient(c)
    \/ SendId(c)
    \/ LoopRead(c)
    \/ FinallyAcquire(c)
    \/ Teardown(c)

Next ==
    \/ ServerStart
    \/ TcpListen
    \/ \E c \in Conns : HandlerStep(c)
    \/ UdpRecv
    \/ UdpAcquire
    \/ UdpUpdate
    \/ BroadcastAcquire
    \/ BroadcastPickle
    \/ BroadcastSend
    \/ UdpLoop

vars == <<svars, cvars, dvars, avars, fvars>>

\* The server: its connection handlers and its UDP listener.
Spec == Init /\ [][Next]_vars

\* The steps of the server that answer the client's handshake.
HandshakeStep(c) ==
    \/ Accept(c)
    \/ HandleHandshake(c)
    \/ AppendAcquire(c)
    \/ AppendClient(c)
    \/ SendId(c)

ClientNext ==
    \/ ServerStart
    \/ TcpListen
    \/ \E c \in Conns : c = c_conn /\ HandshakeStep(c)
    \/ ClientConnect
    \/ ClientReadResponse
    \/ ClientAssign
    \/ ClientSpawn
    \/ \E data \in LocalStates \ {"None"}, o \in SendtoOutcomes : SendUpdateCall(data, o)
    \/ ListenStart
    \/ ListenLoop
    \/ ListenData
    \/ ListenTimeout
    \/ ListenError
    \/ Tick
    \/ BeginSilence
    \/ Frame
    \/ SceneStop

\* One client and its scene, up to time MaxTime.
ClientSpec == Init /\ [][ClientNext]_vars

FairClientNext == ClientNext \/ TickOn

\* One client and its scene, for ever: time passes, the listener thread and
\* the frame thread are scheduled again and again.
FairClientSpec ==
    /\ Init
    /\ [][FairClientNext]_vars
    /\ WF_vars(Tick \/ TickOn)
    /\ WF_vars(ServerStart \/ TcpListen)
    /\ WF_vars(\E c \in Conns : c = c_conn /\ HandshakeStep(c))
    /\ WF_vars(ClientConnect \/ ClientReadResponse \/ ClientAssign \/ ClientSpawn)
    /\ WF_vars(ListenStart \/ ListenLoop \/ ListenTimeout)
    /\ WF_vars(Frame)

DiscoveryNext ==
    \/ FindGames
    \/ \E a \in Announcements : DiscoveryRecv(a)
    \/ DiscoveryReturn

DiscoverySpec == Init /\ [][DiscoveryNext]_vars

\* The steps of the handler after the handshake: the keep-alive loop ends
\* once the client has closed its stream, and the session is torn down.
PeerClosed(c) == c = c_conn /\ "tcp" \in c_closed

SessionEndStep(c) ==
    \/ PeerClosed(c) /\ LoopRead(c)
    \/ FinallyAcquire(c)
    \/ Teardown(c)

SessionNext ==
    \/ ServerStart
    \/ TcpListen
    \/ \E c \in Conns : c = c_conn /\ HandlerStep(c)
    \/ UdpRecv
    \/ UdpAcquire
    \/ UdpUpdate
    \/ BroadcastAcquire
    \/ BroadcastPickle
    \/ BroadcastSend
    \/ UdpLoop
    \/ ClientConnect
    \/ ClientReadResponse
    \/ ClientAssign
    \/ ClientSpawn
    \/ ListenStart
    \/ ListenLoop
    \/ ListenError
    \/ SceneStop

\* One client and the server's session with it, from the handshake to the
\* teardown, with the server's UDP listener. Every thread that can take a
\* step is scheduled again; a lock that is held is released.
SessionSpec ==
    /\ Init
    /\ [][SessionNext]_vars
    /\ WF_vars(ServerStart \/ TcpListen)
    /\ WF_vars(\E c \in Conns : c = c_conn /\ HandshakeStep(c))
    /\ WF_vars(\E c \in Conns : SessionEndStep(c))
    /\ WF_vars(UdpAcquire \/ UdpUpdate \/ BroadcastAcquire \/ BroadcastPickle
                \/ BroadcastSend \/ UdpLoop)
    /\ WF_vars(ClientConnect \/ ClientReadResponse \/ ClientAssign \/ ClientSpawn)
    /\ WF_vars(ListenStart \/ ListenLoop)

\* The steps in which the server ends the session of the client's connection:
\* the read of the keep-alive loop returns None and the finally block runs.
StreamNext ==
    \/ ServerStart
    \/ TcpListen
    \/ \E c \in Conns : c = c_conn /\ HandlerStep(c)
    \/ ClientConnect
    \/ ClientReadResponse
    \/ ClientAssign
    \/ ClientSpawn
    \/ ListenStart
    \/ ListenLoop
    \/ \E st \in Snapshots : ListenDataWith("ok", st)
    \/ ListenTimeout
    \/ ListenError
    \/ Tick
    \/ TickOn

\* One client whose session the server may end while the server keeps running
\* and its broadcasts (well-formed snapshots) keep reaching the client. Time
\* passes, every thread that can take a step is scheduled again; that the
\* stream breaks is not forced.
StreamSpec ==
    /\ Init
    /\ [][StreamNext]_vars
    /\ WF_vars(Tick \/ TickOn)
    /\ WF_vars(ServerStart \/ TcpListen)
    /\ WF_vars(\E c \in Conns : c = c_conn /\ HandshakeStep(c))
    /\ WF_vars(\E c \in Conns : c = c_conn /\ (FinallyAcquire(c) \/ Teardown(c)))
    /\ WF_vars(ClientConnect \/ ClientReadResponse \/ ClientAssign \/ ClientSpawn)
    /\ WF_vars(ListenStart \/ ListenLoop \/ ListenTimeout)

\* The endpoint of the client's UDP socket, as recvfrom reports it.
ClientAddr == "a1"

\* Line 284-286 with line 584: the datagram the server's recvfrom returns is
\* the one the client's last send_update sent.
SentDatagram ==
    [kind |-> "ok", id |-> CHOOSE u \in c_out.sent[1].id : TRUE,
     payload |-> c_out.sent[1].payload, addr |-> ClientAddr]

\* The datagram of the client's last send_update reaches the server.
UdpRecvSent == c_out.sent # <<>> /\ UdpRecvFrom(SentDatagram)

\* The broadcast the server has just made was sent to the client's endpoint.
BroadcastReachesClient ==
    /\ upc = "processed"
    /\ \E i \in 1..ubcast.sent : ubcast.targets[i] = ClientAddr

\* Lines 547-548 with line 322: the datagram the client's recvfrom returns
\* is the broadcast the server has just sent to it.
ListenBroadcast ==
    BroadcastReachesClient /\ ListenDataWith("ok", DOMAIN ubcast.state)

\* Line 426: get_local_state as NetworkScene defines it returns None.
QuietFrame ==
    FrameGate \/ FrameUpdate \/ \E o \in SendtoOutcomes : FrameSendWith("None", o)

QuietNext ==
    \/ ServerStart
    \/ TcpListen
    \/ \E c \in Conns : c = c_conn /\ HandshakeStep(c)
    \/ udp_recvd = 0 /\ UdpRecvSent
    \/ UdpAcquire
    \/ UdpUpdate
    \/ BroadcastAcquire
    \/ BroadcastPickle
    \/ BroadcastSend
    \/ UdpLoop
    \/ ClientConnect
    \/ ClientReadResponse
    \/ ClientAssign
    \/ ClientSpawn
    \/ ListenStart
    \/ ListenLoop
    \/ ListenBroadcast
    \/ ListenTimeout
    \/ Tick
    \/ QuietFrame

\* One client of a running server whose scene sends no updates: the only
\* datagram the client sends is its registration, the only datagrams it
\* receives are the server's broadcasts; the session's stream stays open.
QuietSpec == Init /\ [][QuietNext]_vars

LinkNext ==
    \/ ServerStart
    \/ TcpListen
    \/ \E c \in Conns : c = c_conn /\ HandshakeStep(c)
    \/ UdpRecvSent
    \/ UdpAcquire
    \/ UdpUpdate
    \/ BroadcastAcquire
    \/ BroadcastPickle
    \/ BroadcastSend
    \/ UdpLoop
    \/ ClientConnect
    \/ ClientReadResponse
    \/ ClientAssign
    \/ ClientSpawn
    \/ ListenStart
    \/ ListenLoop
    \/ ListenBroadcast
    \/ Frame

\* One client of a running server, its listener thread and its frame thread
\* in every interleaving; the server receives what the client sent last and
\* the client what the server broadcast last.
LinkSpec == Init /\ [][LinkNext]_vars

AdvertiseNext ==
    \/ StartAdvertising
    \/ StopAdvertising
    \/ \E k \in Advertisers : AdvertiseTest(k)
    \/ \E k \in Advertisers : AdvertiseSend(k)

\* One LANDiscoveryService that is told to advertise and to stop.
AdvertiseSpec == Init /\ [][AdvertiseNext]_vars

\* One LANDiscoveryService whose broadcast threads are scheduled again and
\* again (each wakes up from its sleep of BROADCAST_INTERVAL).
FairAdvertiseSpec ==
    /\ Init
    /\ [][AdvertiseNext]_vars
    /\ \A k \in Advertisers : WF_vars(AdvertiseTest(k) \/ AdvertiseSend(k))

FramingNext ==
    \/ \E obj \in Objects : SendObject(obj)
    \/ \E obj \in Objects :
         \E k \in 0..Len(send_object_over_tcp(obj)) : SendObjectBroken(obj, k)
    \/ StreamClose
    \/ ReceiveObject
    \/ \E n \in 1..Len(w_bytes) : RecvSome(n)
    \/ RecvEof

\* One stream: a writer that sends frames and a reader that receives them,
\* with recv handing out the bytes in pieces of any size.
FramingSpec == Init /\ [][FramingNext]_vars

\* ------------------------------------------------------------------ claims
Range(q) == {q[i] : i \in 1..Len(q)}

\* The handler of connection c has ended (returned, or died of an error).
Ended(c) == hpc[c] \in {"done", "crashed"}

\* The handler of c has read the first frame and did not accept it.
Refused(c) ==
    /\ hpc[c] \in {"finally", "teardown", "teardown_state", "crashed"}
    /\ handshake[c] # "match"

\* The id minted for connection c (defined once client_id[c] is bound).
IdOf(c) == CHOOSE u \in client_id[c] : TRUE

\* C1. Handshake gating: on a connection whose first frame cannot be read, is
\* malformed or carries another game_id, no id_assignment is ever sent, the
\* stream is never added to clients_tcp, and the handler closes the stream
\* (it has done so by the time it ends).
C1_HandshakeGating ==
    \A c \in Conns :
        Refused(c) =>
            /\ tcp_out[c] = <<>>
            /\ c \notin Range(clients_tcp)
            /\ (Ended(c) => sock_closed[c])

\* C1, the part the code keeps: a refused connection gets no id_assignment and
\* never enters clients_tcp.
C1_NoIdWhenRefused ==
    \A c \in Conns :
        Refused(c) => tcp_out[c] = <<>> /\ c \notin Range(clients_tcp)

\* C2. Unique ids: the ids sent in id_assignment messages are pairwise distinct
\* across all connections, torn-down ones included, and a connection whose
\* handshake was accepted is sent exactly one id_assignment: none before the
\* send, the one carrying its own id from then on (in the keep-alive loop,
\* during and after the teardown), never two.
C2_UniqueIds ==
    /\ \A c, d \in Conns :
          (c # d /\ tcp_out[c] # <<>> /\ tcp_out[d] # <<>>) =>
              \A i \in 1..Len(tcp_out[c]), j \in 1..Len(tcp_out[d]) :
                  tcp_out[c][i].id # tcp_out[d][j].id
    /\ \A c \in Conns :
          /\ hpc[c] \in {"idle", "handshake", "append_lock", "append", "send_id"}
                => tcp_out[c] = <<>>
          /\ (client_id[c] # {} /\ hpc[c] \notin {"idle", "handshake", "append_lock",
                                                  "append", "send_id"})
                => tcp_out[c] = <<IdAssignment(IdOf(c))>>

\* Two connections were sent an id, and one of them has been torn down since.
C2_Witness ==
    \E c, d \in Conns :
        c # d /\ hpc[c] = "done" /\ Len(tcp_out[c]) = 1 /\ Len(tcp_out[d]) = 1

\* C3. Whenever the server mutex is free, every key of game_state is a key of
\* client_map.
C3_StateKeysInMap == (lock = {}) => (DOMAIN game_state \subseteq MapKeys(client_map))

\* The UDP listener has stored the payload of a datagram of session c and has
\* left the critical section; the teardown of c has run since and removed the
\* entry, while game_state still holds another one.
C3_Witness ==
    /\ lock = {}
    /\ upc = "bcast_lock"
    /\ upkt.kind = "ok"
    /\ \E c \in Conns : hpc[c] = "done" /\ IdOf(c) = upkt.id
    /\ upkt.id \notin DOMAIN game_state
    /\ DOMAIN game_state # {}

\* A session is live from the moment its id is minted until its teardown is
\* complete.
Live(c) == client_id[c] # {} /\ hpc[c] # "done"

LiveIds == {IdOf(c) : c \in {d \in Conns : Live(d)}}

\* C4. Whenever the server mutex is free, every key of client_map and of
\* game_state is the id of a live session.
C4_KeysAreLive ==
    (lock = {}) => (MapKeys(client_map) \cup DOMAIN game_state) \subseteq LiveIds

\* C5. Once the teardown of a session is complete, its id is in neither
\* game_state nor client_map and its stream is not in clients_tcp.
C5_AbsentAfterTeardown ==
    \A c \in Conns :
        hpc[c] = "done" =>
            /\ IdOf(c) \notin DOMAIN game_state
            /\ IdOf(c) \notin MapKeys(client_map)
            /\ c \notin Range(clients_tcp)

\* C6. Broadcast faithfulness: when the UDP listener has processed a
\* well-formed datagram (C, payload), a broadcast was made whose snapshot has
\* game_state[C] = payload, and, no sendto having failed, it went to every
\* address that was in client_map.
C6_BroadcastFaithful ==
    (upc = "processed" /\ upkt.kind = "ok") =>
        /\ ubcast.done
        /\ upkt.id \in DOMAIN ubcast.state
        /\ ubcast.state[upkt.id] = upkt.payload
        /\ (~ubcast.failed => ubcast.sent = Len(ubcast.targets))

\* C7. A datagram that does not decode to a (client_id, payload) pair is
\* dropped: no broadcast is made for it and the UDP listener keeps running.
\* (upkt holds a malformed datagram only while it is past line 295: one the
\* code drops at line 310 never gets there.)
C7_MalformedDropped ==
    (upkt.kind \notin {"ok", "none"}) => (upc # "crashed" /\ ubcast = NoBcast)

\* C8. In one broadcast, a sendto that raises keeps the snapshot from no other
\* address of client_map: every address but the failing one is sent to.
C8_SendErrorIsolated ==
    (upc = "processed" /\ ubcast.done) =>
        ubcast.sent = Len(ubcast.targets) - (IF ubcast.failed THEN 1 ELSE 0)

\* C9. Heartbeat timeout: last_packet_time never decreases; a receive timeout
\* that fires more than DISCONNECT_TIMEOUT after the last packet sets connected
\* to False, and the listener leaves its loop at the next test of the loop
\* condition; a receive timeout that fires DISCONNECT_TIMEOUT or less after it
\* leaves connected as it is, and the loop goes on to the next recvfrom
\* (unless the client was stopped meanwhile).
C9_TimeoutStep ==
    /\ last_packet_time' >= last_packet_time
    /\ ListenTimeout =>
          /\ lpc' = "loop"
          /\ IF now - last_packet_time > DISCONNECT_TIMEOUT
             THEN c_connected' = FALSE
             ELSE c_connected' = c_connected
    /\ (lpc = "loop" /\ lpc' # "loop") =>
          IF c_running /\ c_connected THEN lpc' = "recv" ELSE lpc' = "exited"

C9_HeartbeatTimeout == [][C9_TimeoutStep]_vars

\* A receive timeout has just set connected to False, more than
\* DISCONNECT_TIMEOUT after the last packet (the client has an id and was not
\* stopped, so nothing else can have done it); the listener is about to leave.
C9_Witness ==
    /\ lpc = "loop"
    /\ c_id # {}
    /\ c_running
    /\ ~c_connected
    /\ now - last_packet_time > DISCONNECT_TIMEOUT

\* C10. Disconnect on silence: a connected client whose scene is running and
\* which no datagram reaches any more is eventually disconnected, and
\* on_server_disconnect is invoked (unless the game stops the scene first).
C10_DisconnectOnSilence ==
    (silent /\ c_connected /\ scene_running)
        ~> ((~c_connected /\ disc_called) \/ (~scene_running /\ ~disc_called))

\* C10, the case the code keeps: the same, for a client whose listener
\* thread is still running.
C10_DisconnectWhileListening ==
    (silent /\ c_connected /\ scene_running /\ lpc # "exited")
        ~> ((~c_connected /\ disc_called) \/ (~scene_running /\ ~disc_called)
            \/ lpc = "exited")

\* The client's handshake was rejected: the handler of its connection closed
\* the stream without sending an id_assignment.
Rejected == c_conn # 0 /\ handshake[c_conn] = "mismatch" /\ sock_closed[c_conn]

\* C11. When the server rejects the handshake (the game_id differs) and closes
\* the stream, the client comes out of its constructor with connected = False
\* and neither id nor server_udp_port set, and no call of send_update made
\* afterwards sends a datagram.
C11_RejectedClient ==
    (Rejected /\ ipc \in {"spawn", "built"}) =>
        /\ ~c_connected
        /\ c_id = {}
        /\ c_port = {}
        /\ c_out.sent = <<>>

\* The rejected client is constructed and the game has called send_update.
C11_Witness ==
    /\ Rejected
    /\ ipc = "built"
    /\ c_running
    /\ c_out.data \in Payloads

\* The server accepted the client's handshake and answered it.
Welcomed == c_conn # 0 /\ handshake[c_conn] = "match" /\ tcp_out[c_conn] # <<>>

\* C12. After a handshake with the server's game_id, the client's id is the id
\* the server minted for its connection and its server_udp_port is the
\* server's UDP port, from the end of the construction on; connected is True
\* when the constructor starts the listener; and connected is never True
\* while id or server_udp_port is unset.
C12_AssignedClient ==
    /\ (Welcomed /\ ipc \in {"spawn", "built"}) =>
            c_id = client_id[c_conn] /\ c_id # {} /\ c_port = {udp_port}
    /\ (Welcomed /\ ipc = "spawn") => c_connected
    /\ c_connected => (c_id # {} /\ c_port # {})

\* The client is constructed and connected, with the id of its connection.
C12_Witness ==
    /\ Welcomed
    /\ ipc = "built"
    /\ c_connected
    /\ c_id = client_id[c_conn]
    /\ c_port = {udp_port}

\* C13. Id-assignment idempotence: once the client's id is set no step
\* changes it (datagrams received, receive timeouts, send_update, stop,
\* frames), and every datagram the client sends carries that id.
C13_IdStep ==
    /\ c_id # {} => c_id' = c_id
    /\ \A i \in 1..Len(c_out'.sent) :
          c_out'.sent[i].id = c_id' /\ c_id' # {}

C13_IdNeverChanges == [][C13_IdStep]_vars

\* The client has received a snapshot, has been stopped, and the datagram of
\* its last send_update that sent one carries its id.
C13_Witness ==
    /\ c_id # {}
    /\ c_latest_state # {}
    /\ stops > 0
    /\ c_out.data \in Payloads
    /\ c_out.sent # <<>>
    /\ c_out.sent[1].id = c_id

\* The datagram (id, data) addressed to (host, server_udp_port).
UpdateDatagram(data) == [id |-> c_id, payload |-> data, to |-> c_port]

\* The client state send_update reads, and must leave alone.
ClientFields == <<c_running, c_connected, c_id, c_port, c_latest_state,
                  last_packet_time, c_closed>>

\* C14 as stated: a call of send_update sends exactly one datagram
\* (id, payload) to (host, server_udp_port) when the client is running,
\* connected and has an id and a port; otherwise it sends nothing; it never
\* changes the client's state.
C14_OriginalStep ==
    \A data \in LocalStates \ {"None"}, o \in SendtoOutcomes :
        SendUpdateCall(data, o) =>
            /\ c_out'.sent = IF c_running /\ c_connected /\ c_id # {} /\ c_port # {}
                             THEN <<UpdateDatagram(data)>>
                             ELSE <<>>
            /\ UNCHANGED ClientFields

C14_SendsWheneverConnected == [][C14_OriginalStep]_vars

\* C14, amended: the one datagram is sent when, besides, the payload can be
\* pickled and sendto does not raise; in every other case nothing is sent;
\* the client's state is never changed. The same holds of the calls the
\* listener and the frame make: a datagram leaves only a running, connected
\* client with id and port, and it is the one for the argument of the call.
C14_AmendedStep ==
    /\ \A data \in LocalStates \ {"None"}, o \in SendtoOutcomes :
          SendUpdateCall(data, o) =>
              /\ c_out'.sent =
                    IF /\ c_running /\ c_connected /\ c_id # {} /\ c_port # {}
                       /\ data # Unpicklable /\ o = "sent"
                    THEN <<UpdateDatagram(data)>>
                    ELSE <<>>
              /\ UNCHANGED ClientFields
    /\ (c_out' # c_out /\ c_out'.sent # <<>>) =>
          /\ c_running /\ c_connected /\ c_id # {} /\ c_port # {}
          /\ c_out'.data # Unpicklable
          /\ c_out'.sent = <<UpdateDatagram(c_out'.data)>>

C14_SendUpdate == [][C14_AmendedStep]_vars

\* A call of send_update by a connected client has sent its one datagram, and
\* the client received a snapshot before.
C14_Witness ==
    /\ c_running /\ c_connected
    /\ c_latest_state # {}
    /\ c_out.data \in Payloads
    /\ c_out.sent = <<UpdateDatagram(c_out.data)>>

\* C15. The disconnect gate: a frame that finds the client's connected flag
\* False invokes on_server_disconnect and returns: it calls neither
\* handle_network_state nor get_local_state nor send_update, and no datagram
\* is sent.
C15_GateStep ==
    /\ (FrameGate /\ ~c_connected) =>
          /\ disc_called'
          /\ frame' = <<"on_server_disconnect">>
          /\ fpc' = "idle"
          /\ c_out' = c_out
    /\ \A i \in 1..Len(frame') :
          frame'[i] = "on_server_disconnect" => Len(frame') = 1

C15_DisconnectGate == [][C15_GateStep]_vars

\* A client that was connected, received a snapshot and sent a datagram has
\* lost the connection, and the next frame has invoked on_server_disconnect.
C15_Witness ==
    /\ disc_called
    /\ frame = <<"on_server_disconnect">>
    /\ c_id # {}
    /\ c_latest_state # {}
    /\ c_out.sent # <<>>

\* The calls of a frame that pull the remote state, and those that push the
\* local one.
PullCalls == {"get_latest_state", "handle_network_state"}

PushCalls == {"get_local_state", "send_update"}

\* C16. Receive-then-send: in every frame of a connected client, the latest
\* state is read and handle_network_state is called (if the state is not
\* empty) before get_local_state and send_update are called.
C16_ReceiveThenSend ==
    /\ \A i, j \in 1..Len(frame) :
          (frame[i] \in PullCalls /\ frame[j] \in PushCalls) => i < j
    /\ (\E j \in 1..Len(frame) : frame[j] \in PushCalls) =>
          frame[1] = "get_latest_state"
    /\ fpc = "send" => (frame # <<>> /\ frame[1] = "get_latest_state")

\* A frame has passed a non-empty state to the handler and then sent the
\* local state.
C16_Witness ==
    /\ fpc = "idle"
    /\ frame = <<"get_latest_state", "handle_network_state",
                  "get_local_state", "send_update">>
    /\ c_out.sent # <<>>

\* C17. Per-frame pull and push: handle_network_state is called in a frame
\* exactly when latest_state is not empty, and whatever the handler does to
\* the keys of the mapping it is given, the client's latest_state stays as it
\* is; send_update is called exactly when the client's id is set and
\* get_local_state returned something other than None (and get_local_state
\* is asked exactly when the id is set).
C17_PullPushStep ==
    /\ FrameUpdate =>
          /\ c_latest_state' = c_latest_state
          /\ frame' = IF c_latest_state # {}
                      THEN frame \o <<"get_latest_state", "handle_network_state">>
                      ELSE frame \o <<"get_latest_state">>
    /\ \A data \in LocalStates, o \in SendtoOutcomes :
          FrameSendWith(data, o) =>
              frame' = IF c_id # {} /\ data # "None"
                       THEN frame \o <<"get_local_state", "send_update">>
                       ELSE IF c_id # {}
                       THEN frame \o <<"get_local_state">>
                       ELSE frame

C17_PullPush == [][C17_PullPushStep]_vars

\* A frame has passed a non-empty state to the handler, asked for the local
\* state and got None; the client's latest_state is still not empty.
C17_Witness ==
    /\ fpc = "idle"
    /\ frame = <<"get_latest_state", "handle_network_state", "get_local_state">>
    /\ c_latest_state # {}

\* C18. HostScene construction order: HostScene.__init__ calls Server.start
\* (line 441) and then constructs its Client (line 446); with the port free,
\* the connect of a client made after Server.start has returned finds the
\* acceptor's socket bound and listening, and is not refused.
C18_HostConnectStep ==
    (ClientConnect /\ tpc \in {"spawned", "listening"}) =>
        (tpc = "listening" /\ ipc' = "wait" /\ c_running')

C18_ConnectAfterListening == [][C18_HostConnectStep]_vars

Stopped ==
    /\ ~c_running
    /\ ~c_connected
    /\ c_closed = {"tcp", "udp"}

\* C19. Stop propagation and idempotence: NetworkScene.stop calls Client.stop,
\* which sets running and connected to false and closes both sockets; a stop
\* called again, or called after the listener has ended on its own, completes and leaves the client's fields as they are; and no
\* later step of the listener or of a frame takes the client out of the
\* stopped state.
C19_StopStep ==
    /\ SceneStop => Stopped'
    /\ (SceneStop /\ stops >= 1) =>
          UNCHANGED <<c_running, c_connected, c_closed, c_id, c_port>>
    /\ (stops >= 1) => (Stopped /\ Stopped')
    /\ (ipc = "built" /\ stops < MaxStops) => ENABLED SceneStop

C19_StopIdempotent == [][C19_StopStep]_vars

\* An assigned client whose listener has already ended has been stopped
\* twice by the scene.
C19_Witness ==
    /\ stops = 2
    /\ c_id # {}
    /\ lpc = "exited"
    /\ Stopped

SamePair(h1, h2) == h1.ip = h2.ip /\ h1.tcp_port = h2.tcp_port

\* C20. Discovery dedup: whatever announcements one find_games scan has
\* received, the list it builds and returns holds at most one entry per
\* (ip, tcp_port) pair.
C20_DiscoveryDedup ==
    \A i, j \in DOMAIN discovered_hosts :
        SamePair(discovered_hosts[i], discovered_hosts[j]) => i = j

\* A scan has returned after two matching announcements from the same ip
\* with the same tcp_port and different host names, and one from that ip
\* with another tcp_port: the list has two entries.
C20_Witness ==
    /\ dpc = "returned"
    /\ Len(discovered_hosts) = 2
    /\ \E i, j \in DOMAIN scanned :
          /\ i < j
          /\ scanned[i].kind = "dict" /\ scanned[j].kind = "dict"
          /\ scanned[i].game_id = "match" /\ scanned[j].game_id = "match"
          /\ scanned[i].frm = scanned[j].frm
          /\ scanned[i].tcp_port = scanned[j].tcp_port
          /\ scanned[i].host_name # scanned[j].host_name

\* The announcement a is a mapping that carries the requested game_id.
Matching(a) == a.kind = "dict" /\ a.game_id = "match"

\* C21. Discovery filtering: the list of a scan has an entry for every
\* (sender ip, tcp_port) of a received announcement with the requested
\* game_id, and every entry has the requested game_id and comes from such an
\* announcement; an undecodable or non-matching announcement leaves the list
\* as it is and the scan goes on listening.
C21_Filtered ==
    /\ \A i \in DOMAIN scanned :
          Matching(scanned[i]) =>
              \E k \in DOMAIN discovered_hosts :
                  /\ discovered_hosts[k].ip = scanned[i].frm
                  /\ discovered_hosts[k].tcp_port = scanned[i].tcp_port
    /\ \A k \in DOMAIN discovered_hosts :
          /\ discovered_hosts[k].game_id = "match"
          /\ \E i \in DOMAIN scanned :
                Matching(scanned[i]) /\ discovered_hosts[k] = HostInfo(scanned[i])

C21_FilterStep ==
    /\ C21_Filtered'
    /\ \A a \in Announcements :
          (DiscoveryRecv(a) /\ ~Matching(a)) =>
              /\ discovered_hosts' = discovered_hosts
              /\ dpc' = "listening"

C21_DiscoveryFiltering == [][C21_FilterStep]_vars

\* A scan has returned one host after undecodable bytes, an announcement of
\* another game and then a matching one.
C21_Witness ==
    /\ dpc = "returned"
    /\ Len(scanned) = 3
    /\ scanned[1].kind = "garbage"
    /\ scanned[2].kind = "dict" /\ scanned[2].game_id = "mismatch"
    /\ Matching(scanned[3])
    /\ Len(discovered_hosts) = 1

\* The threads that are running _broadcast_loop.
LiveAdvertisers == {k \in Advertisers : apc[k] \in {"test", "send"}}

\* C22. start_advertising is idempotent per instance: once start_advertising
\* has been called, once or several times (and no socket of the instance was
\* closed by a stop), exactly one thread runs the broadcast loop of the
\* instance and exactly one broadcast socket of the instance is open.
C22_OneAdvertiser ==
    (advertising /\ a_open = {k \in Advertisers : apc[k] # "unborn"})
        => (Cardinality(LiveAdvertisers) = 1 /\ Cardinality(a_open) = 1)

\* start_advertising was called twice and both threads it started have sent
\* an announcement.
C22_TwoAdvertisers ==
    /\ advertising
    /\ a_open = {1, 2}
    /\ {1, 2} \subseteq a_sent
    /\ LiveAdvertisers = {1, 2}

\* Line 266: Server.start has returned to its caller without an error.
StartReturned == tpc # "off"

\* C23. ConfigError surfacing: a reliable port that cannot be bound is
\* reported to the caller of Server construction or start, so a caller to
\* whom start has returned never holds a Server whose acceptor has failed to
\* bind and is not listening.
C23_BindFailureSurfaces == StartReturned => tpc \in {"spawned", "listening"}

\* C24. Server stop: the stop the program offers (NetworkScene.stop, which
\* the HostScene that owns the Server inherits) closes the server's listener,
\* so that the acceptor exits, and its UDP socket, so that the fast receiver
\* exits.
C24_StopStep ==
    (SceneStop /\ tpc = "listening" /\ c_id # {}) =>
        (tpc' # "listening" /\ upc' # "recv")

C24_StopClosesServer == [][C24_StopStep]_vars

\* The handler of c has made some of the removals of lines 358-360 and not
\* yet all of them.
TearingDown(c) == hpc[c] \in {"teardown_state", "teardown_map"}

\* C25. Session teardown atomicity: the removals of a session's stream from
\* clients_tcp and of its id from game_state and client_map are made in one
\* critical section of the server's lock: while a handler has made some of
\* them and not all, it holds the lock, and the UDP thread is neither in the
\* critical section of its update nor in that of its broadcast.
C25_TeardownAtomic ==
    \A c \in Conns :
        TearingDown(c) =>
            /\ lock = {Handler(c)}
            /\ upc \notin {"update", "bcast"}
            /\ \A d \in Conns \ {c} : ~TearingDown(d) /\ hpc[d] # "append"

\* A handler has removed its id from game_state and not yet from client_map
\* while the UDP thread waits for the lock with a datagram to apply or a
\* snapshot to broadcast.
C25_Witness ==
    \E c \in Conns :
        /\ hpc[c] = "teardown_map"
        /\ IdOf(c) \in MapKeys(client_map)
        /\ IdOf(c) \notin DOMAIN game_state
        /\ upc \in {"lock", "bcast_lock"}

\* The endpoint client_map holds for id u (u is a key of m).
EndpointOf(m, u) == MapGet(m, u)

\* C26. Endpoint learning and stability: an id enters client_map only when
\* the server processes a datagram that carries it and finds it absent, and
\* it enters with the sender endpoint of that datagram; while the id stays in
\* client_map no step (no later datagram, whatever its sender) changes its
\* endpoint; each id has one entry; and a broadcast is addressed, entry by
\* entry, to exactly the endpoints client_map holds.
C26_EndpointStep ==
    /\ \A u \in MapKeys(client_map') \ MapKeys(client_map) :
          /\ upc = "update"
          /\ upkt.id = u
          /\ EndpointOf(client_map', u) = upkt.addr
    /\ \A u \in MapKeys(client_map') \cap MapKeys(client_map) :
          EndpointOf(client_map', u) = EndpointOf(client_map, u)
    /\ \A i, j \in DOMAIN client_map' :
          client_map'[i].id = client_map'[j].id => i = j
    /\ (BroadcastSend /\ client_map # <<>>) =>
          /\ Len(ubcast'.targets) = Len(client_map)
          /\ \A i \in DOMAIN client_map :
                ubcast'.targets[i] = EndpointOf(client_map, client_map[i].id)

C26_EndpointStable == [][C26_EndpointStep]_vars

\* The server has processed a datagram that carries a registered id and comes
\* from another endpoint than the registered one, and has broadcast to the
\* registered endpoint.
C26_Witness ==
    /\ upc = "processed"
    /\ upkt.kind = "ok"
    /\ upkt.id \in MapKeys(client_map)
    /\ upkt.addr = "a2"
    /\ EndpointOf(client_map, upkt.id) = "a1"
    /\ ubcast.done
    /\ ubcast.targets = <<"a1">>

\* The kinds of datagram that do not decode.
Undecodable == ClientDatagramKinds \ {"ok"}

\* C27. Heartbeat counts only well-formed datagrams: a datagram that does
\* not decode does not refresh last_packet_time (so a client that receives
\* only such datagrams for longer than DISCONNECT_TIMEOUT is disconnected by
\* the time-out test).
C27_UndecodableStep ==
    \A kind \in Undecodable, st \in Snapshots :
        ListenDataWith(kind, st) => last_packet_time' = last_packet_time

C27_HeartbeatWellFormedOnly == [][C27_UndecodableStep]_vars

\* C28. Client decode errors: a datagram that fails to decode (an empty or a
\* truncated one included) leaves connected and latest_state as they are,
\* and the listener loop goes on to its next receive.
C28_DecodeErrorStep ==
    \A kind \in Undecodable, st \in Snapshots :
        ListenDataWith(kind, st) =>
            /\ c_connected' = c_connected
            /\ c_latest_state' = c_latest_state
            /\ lpc' = "loop"

C28_DecodeErrorsDropped == [][C28_DecodeErrorStep]_vars

\* The session of the client's connection was accepted (an id was minted for
\* it), its handler has not ended, and the client has closed its end of the
\* stream.
ClosedByPeer ==
    /\ c_conn # 0
    /\ client_id[c_conn] # {}
    /\ hpc[c_conn] # "done"
    /\ "tcp" \in c_closed

\* The handler of the client's connection has ended, the stream is closed and
\* out of clients_tcp, and the session's id is in neither game_state nor
\* client_map.
TornDown ==
    /\ c_conn # 0
    /\ hpc[c_conn] = "done"
    /\ sock_closed[c_conn]
    /\ c_conn \notin Range(clients_tcp)
    /\ IdOf(c_conn) \notin DOMAIN game_state
    /\ IdOf(c_conn) \notin MapKeys(client_map)

\* C29. Stream close triggers teardown: whenever the stream of an accepted
\* session (one whose handler runs) is closed by the peer, the session's
\* handler eventually has removed the stream from clients_tcp and the
\* session's id from game_state and client_map, and has closed the stream.
C29_CloseTearsDown == ClosedByPeer ~> TornDown

\* The client has closed its stream while its id is in game_state and in
\* client_map and its stream in clients_tcp: the handler is still in its loop.
C29_Witness ==
    /\ ClosedByPeer
    /\ hpc[c_conn] = "loop"
    /\ c_conn \in Range(clients_tcp)
    /\ IdOf(c_conn) \in DOMAIN game_state
    /\ IdOf(c_conn) \in MapKeys(client_map)

\* The client is connected and the server has torn down its session and
\* closed its stream.
ClosedByServer ==
    /\ c_conn # 0
    /\ c_connected
    /\ hpc[c_conn] = "done"
    /\ sock_closed[c_conn]

\* C30. Client-side stream close: once the server has closed the stream of a
\* connected client (the session was torn down while the server keeps
\* running), the client's connected flag eventually becomes false.
C30_StreamCloseDisconnects == ClosedByServer ~> ~c_connected

\* The teardown of the client's session holds the lock and is about to delete
\* the client's entry of game_state (line 359), while client_map holds the
\* endpoint of another client.
RemovingEntry ==
    /\ c_conn # 0
    /\ hpc[c_conn] = "teardown_state"
    /\ client_id[c_conn] # {}
    /\ IdOf(c_conn) \in DOMAIN game_state
    /\ MapKeys(client_map) \ {IdOf(c_conn)} # {}

\* A broadcast was made of a snapshot taken after the removal.
BroadcastWithout ==
    /\ c_conn # 0
    /\ client_id[c_conn] # {}
    /\ ubcast.done
    /\ IdOf(c_conn) \notin DOMAIN ubcast.state

\* C31. Broadcast on every change: the removal of a client's entry of
\* game_state by the session teardown is followed by a broadcast of the new
\* snapshot to the endpoints that remain in client_map.
C31_BroadcastOnRemoval == RemovingEntry ~> BroadcastWithout

\* The positions of a handler inside `with self.lock` (lines 337, 357-360).
InCriticalSection(c) == hpc[c] \in {"append", "teardown", "teardown_state", "teardown_map"}

\* The positions of the UDP listener inside `with self.lock` (lines 298-306
\* of _process_client_packet, lines 316-322 of _broadcast_udp_state).
UdpInCriticalSection == upc \in {"update", "bcast"}

\* The thread that takes the step.
Steps(t) ==
    \/ t = UdpThread /\ upc' # upc
    \/ \E c \in Conns : t = Handler(c) /\ hpc'[c] # hpc[c]

SharedState == <<game_state, client_map, clients_tcp>>

\* C32. Server mutex discipline: a step that changes game_state, client_map
\* or clients_tcp is taken by the thread that holds the lock; a thread is at
\* a statement that reads or writes them exactly while it holds the lock; so
\* a thread that has left its critical section, by its end or by an error
\* raised inside it, does not hold the lock.
C32_LockStep ==
    /\ SharedState' # SharedState => \E t \in lock : Steps(t)
    /\ \A c \in Conns : InCriticalSection(c)' <=> (lock' = {Handler(c)})
    /\ UdpInCriticalSection' <=> (lock' = {UdpThread})

C32_MutexDiscipline == [][C32_LockStep]_vars

\* The UDP listener died of an error raised inside its critical section
\* (line 300, unhashable client_id) and a session handler holds the lock.
C32_Witness ==
    /\ upc = "crashed"
    /\ upkt.kind = "unhashable"
    /\ \E c \in Conns : lock = {Handler(c)} /\ hpc[c] = "teardown_map"

\* The entries written so far are entries of d.
PartOf(part, d) ==
    \A k \in DOMAIN part : k \in DOMAIN d /\ part[k] = d[k]

\* C33. Consistent broadcast snapshot: while a broadcast pickles game_state
\* every entry it has written is an entry of game_state as it is now, and the
\* payload it finally sends (one payload for all recipients of the broadcast)
\* is game_state as it is at that moment: game_state did not change between
\* the first entry written and the last datagram sent.
C33_SnapshotStep ==
    /\ upc' = "bcast" => PartOf(ubcast'.state, game_state')
    /\ (upc = "bcast" /\ upc' = "processed" /\ ubcast'.done) =>
           ubcast'.state = game_state

C33_ConsistentSnapshot == [][C33_SnapshotStep]_vars

\* A broadcast of a snapshot with two entries went to two recipients, and a
\* teardown has changed game_state since.
C33_Witness ==
    /\ upc = "processed"
    /\ ubcast.done
    /\ ubcast.sent = 2
    /\ Cardinality(DOMAIN ubcast.state) = 2
    /\ ubcast.state # game_state

\* C34. Reliable-channel decode errors: after the handshake, a read of the
\* session's stream that yields a complete frame whose payload does not
\* decode is skipped: the handler stays in its keep-alive loop (a closed
\* stream or an incomplete frame is what ends the session).
C34_DecodeStep ==
    \A c \in Conns : LoopReadWith(c, "undecodable") => hpc'[c] = "loop"

C34_DecodeErrorsSkipped == [][C34_DecodeStep]_vars

RECURSIVE FramesLen(_, _)
\* The number of bytes the first k frames written take on the stream.
FramesLen(sent, k) ==
    IF k = 0 THEN 0
    ELSE FramesLen(sent, k - 1) + Len(send_object_over_tcp(sent[k]))

\* C35. Stream framing round-trip: whatever the pieces recv hands out, the
\* i-th call of receive_object_over_tcp returns the i-th object written by
\* send_object_over_tcp, and None when the stream closed before an i-th frame
\* was complete; the body it asks for has the length of the pickle sent; and
\* when it returns a frame it has consumed the bytes of the frames returned
\* so far and no byte of the next one.
C35_FramingRoundTrip ==
    /\ \A i \in 1..Len(r_got) :
          r_got[i] = IF i <= Len(w_sent) THEN w_sent[i] ELSE "None"
    /\ (rpc = "body" /\ Len(r_got) < Len(w_sent)) =>
          r_len = Len(dumps(w_sent[Len(r_got) + 1]))
    /\ (rpc = "idle" /\ Len(r_got) <= Len(w_sent)) =>
          r_pos = FramesLen(w_sent, Len(r_got))

\* Two different objects were sent back to back; the first was returned, and
\* the reader is inside the body of the second with one byte of it, the rest
\* waiting on the stream.
C35_Witness ==
    /\ Len(w_sent) = 2
    /\ w_sent[1] # w_sent[2]
    /\ Len(r_got) = 1
    /\ r_got[1] = w_sent[1]
    /\ rpc = "body"
    /\ Len(r_buf) = 1
    /\ Available > 1

\* stop_advertising has taken effect on the activity started by the k-th
\* start_advertising: the socket that call created was closed (line 157).
StoppedAdvertiser(k) == apc[k] # "unborn" /\ k \notin a_open

\* Thread k sends its first announcement in this step.
FirstAnnouncement(k) == k \notin a_sent /\ k \in a_sent'

\* C36. Advertiser lifetime: the activity started by start_advertising sends
\* no announcement once the following stop_advertising has taken effect, and
\* it terminates, also when start_advertising is called again afterwards.
C36_AdvertiserLifetime ==
    /\ [][\A k \in Advertisers : StoppedAdvertiser(k) => ~FirstAnnouncement(k)]_vars
    /\ \A k \in Advertisers : StoppedAdvertiser(k) ~> (apc[k] = "exited")

\* C37. The connected flag is monotone: it goes from false to true only in
\* the constructor's assignment (line 514), with id and server_udp_port set,
\* which happens at most once; once the constructor is past it, or stop has
\* been called, no step sets it to true; and whenever connected is true, id
\* and server_udp_port are set.
C37_ConnectedStep ==
    /\ (~c_connected /\ c_connected') =>
           (ipc = "assign" /\ c_id # {} /\ c_port # {})
    /\ (ipc \in {"spawn", "built"} \/ stops > 0) => (c_connected' => c_connected)
    /\ c_connected' => (c_id' # {} /\ c_port' # {})

C37_ConnectedMonotone == [][C37_ConnectedStep]_vars

\* The client was assigned an id, its listener has cleared connected (no call
\* of stop so far), and the scene goes on running its frames.
C37_Witness ==
    /\ c_id # {}
    /\ c_port # {}
    /\ ~c_connected
    /\ stops = 0
    /\ lpc = "exited"
    /\ scene_running

\* The server is running (acceptor listening, UDP listener waiting in
\* recvfrom), the client's session is live (its handler is in the keep-alive
\* loop), and no datagram is lost: the client's registration was received
\* (the client is in client_map) and the broadcast made for it was received
\* by the client; nothing is in flight.
NothingLost ==
    /\ tpc = "listening"
    /\ upc = "recv"
    /\ c_conn # 0
    /\ hpc[c_conn] = "loop"
    /\ c_out.sent # <<>>
    /\ c_id \subseteq MapKeys(client_map)
    /\ c_latest_state = DOMAIN game_state
    /\ c_latest_state # {}

\* C38. No false disconnect: while the server is running, the client's session
\* is live and no datagram is lost, a receive timeout of the client's listener
\* leaves connected as it is, also when no scene sends updates.
C38_TimeoutStep ==
    (NothingLost /\ c_connected /\ lpc = "recv" /\ lpc' = "loop") => c_connected'

C38_NoFalseDisconnect == [][C38_TimeoutStep]_vars

\* C39. Rejected-handshake handler: a handler that rejected the first frame
\* (unreadable, not a mapping, or another game_id) never ends with an
\* unhandled error; when it has ended the stream is closed and the lock is
\* not left with it; and the stream never enters clients_tcp.
C39_RejectedHandlerEnds ==
    \A c \in Conns :
        Refused(c) =>
            /\ hpc[c] # "crashed"
            /\ Ended(c) => (sock_closed[c] /\ lock # {Handler(c)})
            /\ c \notin Range(clients_tcp)

\* The payload of the registration datagram (line 541).
Registration == "init"

\* game_state holds for the client the payload p.
Holds(gs, p) == \E u \in c_id : u \in DOMAIN gs /\ gs[u] = p

\* C40. Registration payload never overwrites scene state: send_update is
\* called with "init" only by the listener at its start, before its first
\* recvfrom; and once game_state holds for the client a payload its scene
\* sent, no step puts the registration payload in its place.
C40_RegistrationStep ==
    /\ (c_out' # c_out /\ c_out'.data = Registration) => (lpc = "start" /\ lpc' = "loop")
    /\ (\E p \in Payloads : Holds(game_state, p)) => ~Holds(game_state', Registration)

C40_RegistrationNeverOverwrites == [][C40_RegistrationStep]_vars

====
